---- MODULE Spec2Model ----
(***************************************************************************)
(* A model of lyricsify's coordination core: the LRU lyrics cache and the  *)
(* fetcher in front of it (src/src/lyrics_fetcher.rs), the track poller    *)
(* with its retry loop, the token with its validity check, its keychain    *)
(* entry and its refresh (src/src/spotify_client.rs), the configuration    *)
(* file and its JSON form (src/src/config.rs), and the startup, event loop *)
(* handlers and producers (src/src/app_core.rs, src/src/main.rs).          *)
(*                                                                         *)
(* Option<T> is modelled as a sequence: None is <<>>, Some(x) is <<x>>.    *)
(* Result<T, E> is a record [ok, val]: val is the Ok value, or the error   *)
(* as <<variant, message>>.                                                *)
(***************************************************************************)
EXTENDS Integers, Sequences, FiniteSets, TLC

VARIABLES
    cache,          \* LyricsFetcher.cache: [entries, access_order, max_size]
    clock,          \* logical time: what Instant::now() reads; one tick per call
    lastTouch,      \* history: per track id, the clock of its last get-hit or insert
    lastOp,         \* history: the last call made on the cache
    lastFetch,      \* history: the last fetch_lyrics call and what it returned
    remote_calls,   \* history: number of requests sent to the lyrics endpoint
    negResolved,    \* history: ids whose fetch resolved to None, not evicted since
    channel,        \* the main event channel (mpsc::channel): queued AppEvents
    rx_closed,      \* TRUE once the channel's receiver is gone
    overlay_text,   \* the text shown by the overlay window, as its pieces in order
    run_pc,         \* App::run: where the event loop is
    handling,       \* handle_track_changed: the track being handled
    pending,        \* the event a suspended send on the channel is holding
    current_track,  \* SpotifyClient.current_track
    poll_pc,        \* where the polling task is
    attempt,        \* get_current_track_with_retry: index into retry_delays
    last_error,     \* get_current_track_with_retry: last_error
    poll_result,    \* what get_current_track_with_retry returned to the polling loop
    retryLog,       \* history: attempts and sleeps of the current poll cycle
    pollLog,        \* history: per finished poll cycle, its result and events sent
    token,          \* AuthCodeSpotify.token: Option<Token>
    now,            \* Utc::now(), in seconds
    valid_ret,      \* history: what the last is_token_valid call returned
    keychain,       \* the keychain entry of the program: Option of the stored password
    last_call,      \* history: the last call of a SpotifyClient method that awaits
    config,         \* App.config: the AppConfig loaded at startup
    config_file,    \* the config file on disk: Option of its content
    window_visible, \* OverlayWindow: whether the window is on screen
    menu_visible,   \* MenuBar.overlay_visible
    menu_auth,      \* MenuBar.authenticated
    menu_queue,     \* the unbounded channel from the menu to the forwarding task
    event,          \* App::run: the event whose handler is running
    app_ret,        \* what main returned, once it has
    sends,          \* history: number of events sent on the main channel
    tags,           \* history: the send-order numbers of the events sent and not received
    handled,        \* history: the numbers of the events handled, in handling order
    ui_updates,     \* history: number of OverlayWindow::update_lyrics calls
    vis_log,        \* history: the window's visibility at startup and after each toggle
    forward_pc,     \* where the task forwarding menu events is
    deserialized,   \* what serde_json::from_str::<AppConfig> last read and returned
    float_roundtrip, \* whether the build's serde_json reads every float back exactly
    pollers_started, \* history: number of start_polling calls
    browser_opens,  \* history: number of open_url calls
    unshown,        \* history: the lookups' results not displayed yet, oldest first
    last_lookup,    \* history: the track last looked up for a TrackChanged, and the result
    cache_origin    \* history: per cache key, the artist and title its entry was fetched for

vars == <<cache, clock, lastTouch, lastOp, lastFetch, remote_calls, negResolved,
          channel, rx_closed, overlay_text, run_pc, handling, pending,
          current_track, poll_pc, attempt, last_error, poll_result, retryLog, pollLog,
          token, now, valid_ret, keychain, last_call,
          config, config_file, window_visible, menu_visible, menu_auth,
          menu_queue, event, app_ret, sends, tags, handled,
          ui_updates, vis_log, forward_pc, deserialized, float_roundtrip,
          pollers_started, browser_opens, unshown,
                   last_lookup, cache_origin>>

cacheVars == <<cache, clock, lastTouch, lastOp>>
fetchVars == <<lastFetch, remote_calls, negResolved>>
loopVars == <<channel, rx_closed, overlay_text, run_pc, handling, pending>>
pollVars == <<current_track, poll_pc, attempt, last_error, poll_result, retryLog, pollLog>>
authVars == <<token, now, valid_ret>>
sessionVars == <<keychain, last_call>>
appVars == <<config, config_file, window_visible, menu_visible, menu_auth,
             menu_queue, event, app_ret, sends, tags, handled>>
auxVars == <<ui_updates, vis_log, forward_pc, deserialized, float_roundtrip,
             pollers_started, browser_opens, unshown,
                   last_lookup, cache_origin>>

(***************************************************************************)
(* Bounds of the model.                                                    *)
(***************************************************************************)
\* largest capacity a LyricsCache is constructed with (the program uses 100)
MaxCapacity == 2
\* number of direct cache calls (get, insert) in a behaviour
MaxOps == 5
\* number of fetch_lyrics calls in a behaviour
MaxFetches == 3
\* capacity of the main event channel in the model (the program uses 100)
ChannelCap == 2
\* number of poll cycles in a behaviour
MaxPolls == 3
\* latest reading of the wall clock, in seconds
MaxNow == 3
\* how far past now + 60 s a token's expiry may lie, in seconds
MaxSlack == 3
\* number of events the menu and the poller produce in a behaviour
MaxEvents == 3

None == <<>>
Some(x) == <<x>>
Ok(v) == [ok |-> TRUE, val |-> v]
Err(variant, msg) == [ok |-> FALSE, val |-> <<variant, msg>>]

TrackIds == {"a", "b", "c"}
Texts == {"la la", "na na"}
Lyrics == {None} \cup {Some(t) : t \in Texts}

(***************************************************************************)
(* LyricsCache                                                             *)
(***************************************************************************)
\* a retain that removes nothing
RetainEverything(order, track_id) == order

\* VecDeque::retain(|id| id != track_id)
Retain(order, track_id) == SelectSeq(order, LAMBDA id : id # track_id)

\* HashMap::insert
MapInsert(m, k, v) == [x \in DOMAIN m \cup {k} |-> IF x = k THEN v ELSE m[x]]

\* HashMap::remove
MapRemove(m, k) == [x \in DOMAIN m \ {k} |-> m[x]]

\* LyricsCache::new
NewCache(max_size) ==
    [entries |-> [x \in {} |-> None], access_order |-> <<>>, max_size |-> max_size]

\* a get that does not refresh the recency of the entry it hits
CacheGetNoTouch(c, track_id) ==
    IF track_id \in DOMAIN c.entries
    THEN [cache |-> c, result |-> Some(c.entries[track_id])]
    ELSE [cache |-> c, result |-> None]

\* LyricsCache::get: the cache after the call and the Option<&CachedLyrics> returned
CacheGet(c, track_id) ==
    IF track_id \in DOMAIN c.entries
    THEN [cache |-> [c EXCEPT !.access_order =
                        Append(Retain(c.access_order, track_id), track_id)],
          result |-> Some(c.entries[track_id])]
    ELSE [cache |-> c, result |-> None]

\* an insert that never evicts
CacheInsertNoEvict(c, track_id, lyrics, t) ==
    LET cached == [lyrics |-> lyrics, timestamp |-> t]
    IN  [c EXCEPT !.entries = MapInsert(c.entries, track_id, cached),
                  !.access_order = Append(Retain(c.access_order, track_id), track_id)]

\* LyricsCache::insert, called at time t
CacheInsert(c, track_id, lyrics, t) ==
    LET c1 == IF Cardinality(DOMAIN c.entries) >= c.max_size
                 /\ track_id \notin DOMAIN c.entries
              THEN IF c.access_order # <<>>
                   THEN [c EXCEPT !.entries = MapRemove(c.entries, Head(c.access_order)),
                                  !.access_order = Tail(c.access_order)]
                   ELSE c
              ELSE c
        cached == [lyrics |-> lyrics, timestamp |-> t]
    IN  IF track_id \in DOMAIN c1.entries
        THEN [c1 EXCEPT !.entries = MapInsert(c1.entries, track_id, cached),
                        !.access_order =
                            Append(Retain(c1.access_order, track_id), track_id)]
        ELSE [c1 EXCEPT !.entries = MapInsert(c1.entries, track_id, cached),
                        !.access_order = Append(c1.access_order, track_id)]

(***************************************************************************)
(* TrackInfo and AppEvent                                                  *)
(***************************************************************************)
\* rspotify's FullTrack, as far as the program reads it: id is an Option, the
\* artists are records with a name, the duration is in milliseconds
FullA == [id |-> Some("a"), name |-> "Song A",
          artists |-> <<[name |-> "Ann"], [name |-> "Bob"]>>, duration |-> 1000]
FullA2 == [id |-> Some("a"), name |-> "Song A (Live)",
           artists |-> <<[name |-> "Ann"]>>, duration |-> 2000]
FullB == [id |-> Some("b"), name |-> "Song B", artists |-> <<>>, duration |-> 1000]
FullC == [id |-> Some("c"), name |-> "Song C",
          artists |-> <<[name |-> "Cy"]>>, duration |-> 3000]

\* TrackInfo::from_full_track
FromFullTrack(track) ==
    [id |-> IF track.id # None THEN track.id[1] ELSE "",
     name |-> track.name,
     artists |-> [i \in 1..Len(track.artists) |-> track.artists[i].name],
     duration_ms |-> track.duration]

TrackA == FromFullTrack(FullA)
TrackA2 == FromFullTrack(FullA2)
TrackB == FromFullTrack(FullB)
TrackC == FromFullTrack(FullC)
Tracks == {TrackA, TrackA2, TrackB, TrackC}

\* AppEvent: every variant carries all fields, the unused ones empty
TrackChanged(track) ==
    [kind |-> "TrackChanged", track |-> Some(track), lyrics |-> None, message |-> <<>>]
LyricsRetrieved(lyrics) ==
    [kind |-> "LyricsRetrieved", track |-> None, lyrics |-> lyrics, message |-> <<>>]
SpotifyError(message) ==
    [kind |-> "SpotifyError", track |-> None, lyrics |-> None, message |-> message]
ToggleOverlay ==
    [kind |-> "ToggleOverlay", track |-> None, lyrics |-> None, message |-> <<>>]
Authenticate ==
    [kind |-> "Authenticate", track |-> None, lyrics |-> None, message |-> <<>>]
Quit ==
    [kind |-> "Quit", track |-> None, lyrics |-> None, message |-> <<>>]

\* an f64: a finite number, a NaN, or an infinity with its sign. A finite
\* number is either one whose decimal form is short, a whole number for
\* instance, or one whose shortest decimal form has 17 significant digits;
\* the value of the latter numbers it among its neighbours
F64(n) == [class |-> "finite", value |-> n]
F64Long(n) == [class |-> "finite17", value |-> n]
F64NaN == [class |-> "nan", value |-> 0]
F64Infinity == [class |-> "infinite", value |-> 1]
F64NegInfinity == [class |-> "infinite", value |-> -1]

\* f64's PartialEq: a NaN equals nothing, itself included
F64Eq(a, b) == a.class # "nan" /\ b.class # "nan" /\ a = b

\* AppConfig::default
DefaultConfig ==
    [window_position |-> <<F64(100), F64(100)>>, overlay_visible |-> TRUE,
     poll_interval_secs |-> 5]

(***************************************************************************)
(* LyricsFetcher                                                           *)
(***************************************************************************)
\* What the lyrics endpoint can answer to one request: sent is FALSE when the
\* transport fails (no response, timeout); lyrics is the "lyrics" field of the
\* body when the body decodes as LyricsOvhResponse, None when it does not.
LyricsResponses ==
    {[sent |-> TRUE, status |-> 200, lyrics |-> Some(t)] : t \in Texts}
    \cup {[sent |-> TRUE, status |-> 200, lyrics |-> None],
          [sent |-> TRUE, status |-> 404, lyrics |-> None],
          [sent |-> TRUE, status |-> 500, lyrics |-> None],
          [sent |-> FALSE, status |-> 0, lyrics |-> None]}

\* StatusCode::is_success
IsSuccess(status) == 200 <= status /\ status <= 299

StatusText(status) ==
    IF status = 500 THEN "API returned status: 500 Internal Server Error"
    ELSE "API returned status: other"

\* LyricsFetcher::query_lyrics_ovh, given the endpoint's answer
QueryLyricsOvh(artist, title, resp) ==
    IF ~resp.sent THEN Err("NetworkError", "error sending request")
    ELSE IF IsSuccess(resp.status)
         THEN IF resp.lyrics # None THEN Ok(resp.lyrics[1])
              ELSE Err("NetworkError", "error decoding response body")
         ELSE IF resp.status = 404
              THEN Err("LyricsFetchError", "Lyrics not found")
              ELSE Err("LyricsFetchError", StatusText(resp.status))

\* a fetch that treats a cached negative entry as a miss
FetchLyricsRetryNegative(c, track_id, artist, title, resp, t) ==
    LET g == CacheGet(c, track_id)
        q == QueryLyricsOvh(artist, title, resp)
    IN  IF g.result # None /\ g.result[1].lyrics # None
        THEN [cache |-> g.cache, ret |-> Ok(g.result[1].lyrics), remote |-> FALSE]
        ELSE IF q.ok
             THEN [cache |-> CacheInsert(g.cache, track_id, Some(q.val), t),
                   ret |-> Ok(Some(q.val)), remote |-> TRUE]
             ELSE [cache |-> CacheInsert(g.cache, track_id, None, t),
                   ret |-> Ok(None), remote |-> TRUE]

\* a fetch that propagates every remote failure but "not found"
FetchLyricsPropagate(c, track_id, artist, title, resp, t) ==
    LET g == CacheGet(c, track_id)
        q == QueryLyricsOvh(artist, title, resp)
    IN  IF g.result # None
        THEN [cache |-> g.cache, ret |-> Ok(g.result[1].lyrics), remote |-> FALSE]
        ELSE IF q.ok
             THEN [cache |-> CacheInsert(g.cache, track_id, Some(q.val), t),
                   ret |-> Ok(Some(q.val)), remote |-> TRUE]
             ELSE IF q.val[2] = "Lyrics not found"
                  THEN [cache |-> CacheInsert(g.cache, track_id, None, t),
                        ret |-> Ok(None), remote |-> TRUE]
                  ELSE [cache |-> g.cache, ret |-> q, remote |-> TRUE]

\* a fetch that returns the text it fetched without caching it
FetchLyricsNoStore(c, track_id, artist, title, resp, t) ==
    LET g == CacheGet(c, track_id)
        q == QueryLyricsOvh(artist, title, resp)
    IN  IF g.result # None
        THEN [cache |-> g.cache, ret |-> Ok(g.result[1].lyrics), remote |-> FALSE]
        ELSE IF q.ok
             THEN [cache |-> g.cache, ret |-> Ok(Some(q.val)), remote |-> TRUE]
             ELSE [cache |-> CacheInsert(g.cache, track_id, None, t),
                   ret |-> Ok(None), remote |-> TRUE]

\* LyricsFetcher::fetch_lyrics, called at time t, the endpoint answering resp if
\* it is asked: the cache afterwards, the Result returned, and whether a
\* request was sent
FetchLyrics(c, track_id, artist, title, resp, t) ==
    LET g == CacheGet(c, track_id)
        q == QueryLyricsOvh(artist, title, resp)
    IN  IF g.result # None
        THEN [cache |-> g.cache, ret |-> Ok(g.result[1].lyrics), remote |-> FALSE]
        ELSE IF q.ok
             THEN [cache |-> CacheInsert(g.cache, track_id, Some(q.val), t),
                   ret |-> Ok(Some(q.val)), remote |-> TRUE]
             ELSE [cache |-> CacheInsert(g.cache, track_id, None, t),
                   ret |-> Ok(None), remote |-> TRUE]

NoOp == [op |-> "none", key |-> "", value |-> None]
NoFetch == [id |-> "", ret |-> Ok(None), resp |-> None]

\* the cache and its history right after LyricsFetcher::new / LyricsCache::new
CacheInit ==
    /\ cache \in {NewCache(n) : n \in 1..MaxCapacity}
    /\ clock = 0
    /\ lastTouch = [k \in TrackIds |-> 0]
    /\ lastOp = NoOp

\* the fetcher's history before any fetch_lyrics call
FetchInit ==
    /\ lastFetch = NoFetch
    /\ remote_calls = 0
    /\ negResolved = {}

\* App::new: the channel is empty, the overlay shows its placeholder text
LoopInit ==
    /\ channel = <<>>
    /\ rx_closed = FALSE
    /\ overlay_text = <<"Waiting for lyrics...">>
    /\ run_pc = "recv"
    /\ handling = None
    /\ pending = None
    /\ config = DefaultConfig
    /\ config_file = None
    /\ window_visible = TRUE
    /\ menu_visible = FALSE
    /\ menu_auth = FALSE
    /\ menu_queue = <<>>
    /\ event = None
    /\ app_ret = None
    /\ sends = 0
    /\ tags = <<>>
    /\ handled = <<>>
    /\ ui_updates = 0
    /\ vis_log = <<>>
    /\ forward_pc = "running"
    /\ deserialized = None
    /\ float_roundtrip = FALSE
    /\ pollers_started = 0 /\ browser_opens = 0
    /\ unshown = <<>> /\ last_lookup = None
    /\ cache_origin = [k \in {} |-> None]

NoRetry == [attempts |-> <<>>, delays |-> <<>>]

\* SpotifyClient::new: no track known; the polling task is not started
PollIdle ==
    /\ current_track = None
    /\ poll_pc = "idle"
    /\ attempt = 0
    /\ last_error = None
    /\ poll_result = None
    /\ retryLog = NoRetry
    /\ pollLog = <<>>

\* no call of refresh_token, ensure_token_valid or initialize was made yet
NoCall ==
    [op |-> "", ret |-> Ok(<<>>), exchange |-> <<>>, store |-> <<>>,
     refreshes |-> 0, valid |-> None, token |-> None, keychain |-> None,
     token_after |-> None, keychain_after |-> None, at |-> 0]

\* SpotifyClient::new: no token held
AuthIdle ==
    /\ token = None
    /\ now = 0
    /\ valid_ret = None
    /\ keychain = None
    /\ last_call = NoCall

(***************************************************************************)
(* The cache alone: any sequence of get and insert calls.                  *)
(***************************************************************************)
\* a call of LyricsCache::get(track_id)
Get(track_id) ==
    /\ clock < MaxOps
    /\ clock' = clock + 1
    /\ cache' = CacheGet(cache, track_id).cache
    /\ lastTouch' = IF track_id \in DOMAIN cache.entries
                    THEN [lastTouch EXCEPT ![track_id] = clock + 1]
                    ELSE lastTouch
    /\ lastOp' = [op |-> "get", key |-> track_id,
                  value |-> CacheGet(cache, track_id).result]
    /\ UNCHANGED <<fetchVars, loopVars, pollVars, authVars, sessionVars, appVars, auxVars>>

\* a call of LyricsCache::insert(track_id, lyrics)
Insert(track_id, lyrics) ==
    /\ clock < MaxOps
    /\ clock' = clock + 1
    /\ cache' = CacheInsert(cache, track_id, lyrics, clock + 1)
    /\ lastTouch' = [lastTouch EXCEPT ![track_id] = clock + 1]
    /\ lastOp' = [op |-> "insert", key |-> track_id, value |-> lyrics]
    /\ UNCHANGED <<fetchVars, loopVars, pollVars, authVars, sessionVars, appVars, auxVars>>

InitCache == CacheInit /\ FetchInit /\ LoopInit /\ PollIdle /\ AuthIdle

NextCache ==
    \/ \E track_id \in TrackIds : Get(track_id)
    \/ \E track_id \in TrackIds, lyrics \in Lyrics : Insert(track_id, lyrics)

SpecCache == InitCache /\ [][NextCache]_vars

\* the ids held by the cache
Held == DOMAIN cache.entries

\* C1: a cache of capacity C >= 1 never holds more than C entries, whatever
\* sequence of insert and get calls it has served since it was created empty.
C1_SizeWithinCapacity ==
    cache.max_size >= 1 => Cardinality(Held) <= cache.max_size

\* C1 witness: a full cache whose last call was an insert of a new id that
\* had to displace another one.
C1_Witness ==
    /\ lastOp.op = "insert"
    /\ Cardinality(Held) = cache.max_size
    /\ \E k \in TrackIds \ Held : lastTouch[k] > 0

\* C2: insert evicts only when the key is new and the cache is full; then it
\* evicts exactly one key, the one whose last touch (get hit or insert) is
\* older than that of every other key held; the inserted key always ends up
\* held with the new value and most recently used.
C2_InsertEvictsLeastRecent ==
    [][lastOp'.op = "insert" =>
        LET k == lastOp'.key
            pre == DOMAIN cache.entries
            post == DOMAIN cache'.entries
            full == k \notin pre /\ Cardinality(pre) >= cache.max_size
        IN  /\ ~full => post = pre \cup {k}
            /\ full => \E e \in pre :
                          /\ post = (pre \ {e}) \cup {k}
                          /\ \A o \in pre \ {e} : lastTouch[e] < lastTouch[o]
            /\ cache'.entries[k].lyrics = lastOp'.value
            /\ \A o \in post \ {k} : cache'.entries[o] = cache.entries[o]
            /\ cache'.access_order # <<>>
            /\ cache'.access_order[Len(cache'.access_order)] = k
            /\ \A o \in post \ {k} : lastTouch'[o] < lastTouch'[k]
    ]_vars

\* C2 witness: the last insert evicted a key although another key, still
\* held, was inserted before the evicted key's last touch: a get had
\* refreshed it.
C2_Witness ==
    /\ lastOp.op = "insert"
    /\ \E e \in TrackIds \ Held, o \in Held \ {lastOp.key} :
          /\ lastTouch[e] > 0
          /\ cache.entries[o].timestamp < lastTouch[e]
          /\ lastTouch[e] < lastTouch[o]

(***************************************************************************)
(* The event loop handling TrackChanged and LyricsRetrieved, with the      *)
(* fetcher behind it.                                                      *)
(***************************************************************************)
\* the TrackChanged events sent and not yet answered by a fetch
InFlight ==
    Cardinality({i \in 1..Len(channel) : channel[i].kind = "TrackChanged"})
    + Len(handling)

\* the polling task's event_tx.send(AppEvent::TrackChanged(track)) completes
SendTrackChanged(track) ==
    /\ ~rx_closed
    /\ clock + InFlight < MaxFetches
    /\ Len(channel) < ChannelCap
    /\ channel' = Append(channel, TrackChanged(track))
    /\ UNCHANGED <<rx_closed, overlay_text, run_pc, handling, pending>>
    /\ UNCHANGED <<cacheVars, fetchVars, pollVars, authVars, sessionVars, appVars, auxVars>>

\* App::run receives a TrackChanged: handle_track_changed runs up to the
\* await of fetch_lyrics
RecvTrackChanged ==
    /\ run_pc = "recv"
    /\ channel # <<>>
    /\ Head(channel).kind = "TrackChanged"
    /\ clock < MaxFetches
    /\ channel' = Tail(channel)
    /\ handling' = Head(channel).track
    /\ run_pc' = "fetching"
    /\ UNCHANGED <<rx_closed, overlay_text, pending>>
    /\ UNCHANGED <<cacheVars, fetchVars, pollVars, authVars, sessionVars, appVars, auxVars>>

\* handle_track_changed: the first artist, or the empty string
FirstArtist(track) == IF track.artists = <<>> THEN "" ELSE track.artists[1]

\* handle_track_changed from the return of fetch_lyrics on: an Err leaves the
\* loop through `?`; an Ok is sent as LyricsRetrieved, and the send suspends
\* while the channel is full
FetchDone(resp) ==
    /\ run_pc = "fetching"
    /\ LET track == handling[1]
           r == FetchLyrics(cache, track.id, FirstArtist(track), track.name,
                            resp, clock + 1)
           held == DOMAIN r.cache.entries
       IN  /\ cache' = r.cache
           /\ clock' = clock + 1
           /\ lastTouch' = [lastTouch EXCEPT ![track.id] = clock + 1]
           /\ UNCHANGED lastOp
           /\ lastFetch' = [id |-> track.id, ret |-> r.ret,
                            resp |-> IF r.remote THEN Some(resp) ELSE None]
           /\ remote_calls' = IF r.remote THEN remote_calls + 1 ELSE remote_calls
           /\ negResolved' = (IF r.ret = Ok(None)
                              THEN negResolved \cup {track.id}
                              ELSE negResolved \ {track.id}) \cap held
           /\ IF ~r.ret.ok
              THEN /\ run_pc' = "failed"
                   /\ UNCHANGED <<channel, pending>>
              ELSE IF Len(channel) < ChannelCap
                   THEN /\ channel' = Append(channel, LyricsRetrieved(r.ret.val))
                        /\ run_pc' = "recv"
                        /\ UNCHANGED pending
                   ELSE /\ pending' = Some(LyricsRetrieved(r.ret.val))
                        /\ run_pc' = "sending"
                        /\ UNCHANGED channel
    /\ handling' = None
    /\ UNCHANGED <<rx_closed, overlay_text>>
    /\ UNCHANGED <<pollVars, authVars, sessionVars, appVars, auxVars>>

\* a handler that shows nothing new when there are no lyrics
LyricsTextOrBlank(lyrics) ==
    IF lyrics # None THEN <<lyrics[1]>> ELSE <<"">>

\* what handle_lyrics_retrieved puts on the overlay
LyricsText(lyrics) ==
    IF lyrics # None THEN <<lyrics[1]>>
    ELSE <<"Lyrics not available for this track">>

\* App::run receives a LyricsRetrieved: handle_lyrics_retrieved
RecvLyricsRetrieved ==
    /\ run_pc = "recv"
    /\ channel # <<>>
    /\ Head(channel).kind = "LyricsRetrieved"
    /\ channel' = Tail(channel)
    /\ overlay_text' = LyricsText(Head(channel).lyrics)
    /\ UNCHANGED <<rx_closed, run_pc, handling, pending>>
    /\ UNCHANGED <<cacheVars, fetchVars, pollVars, authVars, sessionVars, appVars, auxVars>>

InitFetch == CacheInit /\ FetchInit /\ LoopInit /\ PollIdle /\ AuthIdle

NextFetch ==
    \/ \E track \in Tracks : SendTrackChanged(track)
    \/ RecvTrackChanged
    \/ \E resp \in LyricsResponses : FetchDone(resp)
    \/ RecvLyricsRetrieved

SpecFetch == InitFetch /\ [][NextFetch]_vars

\* a step in which fetch_lyrics returns
FetchReturns == run_pc = "fetching" /\ run_pc' # "fetching"

\* the endpoint's answer is a failure: anything but a 2xx with a decodable body
IsFailure(resp) == ~(resp.sent /\ IsSuccess(resp.status) /\ resp.lyrics # None)

\* C3: a fetch for an id held by the cache returns the cached value, text or
\* None, and sends no request; in particular an id whose fetch resolved to
\* None keeps returning None without a request until it is evicted.
C3_HitReturnsCachedNoRemote ==
    [][FetchReturns =>
        LET id == handling[1].id
        IN  /\ id \in DOMAIN cache.entries =>
                  /\ lastFetch'.ret = Ok(cache.entries[id].lyrics)
                  /\ remote_calls' = remote_calls
            /\ id \in negResolved =>
                  /\ lastFetch'.ret = Ok(None)
                  /\ remote_calls' = remote_calls
    ]_vars

\* C3 witness: a fetch answered None from a negative entry, no request sent,
\* after other fetches went to the endpoint.
C3_Witness ==
    /\ lastFetch.id \in negResolved
    /\ lastFetch.ret = Ok(None)
    /\ lastFetch.resp = None
    /\ remote_calls >= 2

\* C4: on a miss, a 404 and every other remote failure (other status,
\* transport failure, undecodable body) end with None cached under the id and
\* Ok(None) returned; the loop goes on and the only event produced is
\* LyricsRetrieved(None), never a SpotifyError.
C4_FailureAbsorbedAsNone ==
    [][(FetchReturns /\ lastFetch'.resp # None /\ IsFailure(lastFetch'.resp[1])) =>
        LET id == handling[1].id
        IN  /\ lastFetch'.ret = Ok(None)
            /\ id \in DOMAIN cache'.entries
            /\ cache'.entries[id].lyrics = None
            /\ run_pc' # "failed"
            /\ \/ channel' = Append(channel, LyricsRetrieved(None))
               \/ channel' = channel /\ pending' = Some(LyricsRetrieved(None))
            /\ \A i \in 1..Len(channel') : channel'[i].kind # "SpotifyError"
    ]_vars

\* C4 witness: each kind of failure has been the answer to a fetch that
\* returned Ok(None) and left a negative entry.
C4_WitnessOn(resp) ==
    /\ lastFetch.resp = Some(resp)
    /\ lastFetch.ret = Ok(None)
    /\ cache.entries[lastFetch.id].lyrics = None

C4_Witness ==
    /\ lastFetch.resp # None
    /\ lastFetch.resp[1].status = 500
    /\ C4_WitnessOn(lastFetch.resp[1])
    /\ run_pc = "recv"
    /\ channel # <<>>
    /\ channel[Len(channel)] = LyricsRetrieved(None)

\* C5: on a miss answered successfully with text T, fetch returns Some(T) and
\* the cache then maps the id to Some(T).
C5_SuccessCachedAndReturned ==
    [][(FetchReturns /\ lastFetch'.resp # None /\ ~IsFailure(lastFetch'.resp[1])) =>
        LET id == handling[1].id
            T == lastFetch'.resp[1].lyrics[1]
        IN  /\ id \notin DOMAIN cache.entries
            /\ lastFetch'.ret = Ok(Some(T))
            /\ id \in DOMAIN cache'.entries
            /\ cache'.entries[id].lyrics = Some(T)
    ]_vars

\* C5 witness: the cache was empty, the endpoint answered "la la" for track a,
\* and a holds Some("la la").
C5_Witness ==
    /\ clock = 1
    /\ lastFetch.id = "a"
    /\ lastFetch.resp = Some([sent |-> TRUE, status |-> 200, lyrics |-> Some("la la")])
    /\ lastFetch.ret = Ok(Some("la la"))
    /\ cache.entries["a"].lyrics = Some("la la")

(***************************************************************************)
(* The polling task (SpotifyClient::start_polling) and its retry loop.     *)
(***************************************************************************)
\* What the playback endpoint can answer to one "currently playing" query:
\* an error, nothing playing, a context without an item, an episode, a track.
PlayErrors == {"http error: 401 Unauthorized", "connection timed out"}

PlayingResponses ==
    {[ok |-> FALSE, item |-> "error", track |-> None, error |-> e] : e \in PlayErrors}
    \cup {[ok |-> TRUE, item |-> i, track |-> None, error |-> ""] :
              i \in {"nothing", "no_item", "episode"}}
    \cup {[ok |-> TRUE, item |-> "track", track |-> Some(t), error |-> ""] :
              t \in {FullA, FullA2, FullB}}

\* get_current_track_with_retry: what a successful query resolves to
ResolvePlaying(resp) ==
    IF resp.item = "track" THEN Some(FromFullTrack(resp.track[1])) ELSE None

retry_delays == <<1, 2, 4>>

\* a retry loop that sleeps after every failed attempt, the last included
SleepsAfterAlways(i) == TRUE

\* get_current_track_with_retry: whether a sleep follows the failed attempt
\* with (0-based) index i
SleepsAfter(i) == i < Len(retry_delays) - 1

\* a retry loop that remembers the first error instead of the last
KeepFirstError(prev, e) == IF prev = None THEN Some(e) ELSE prev

\* get_current_track_with_retry: last_error = Some(e)
RecordError(prev, e) == Some(e)

\* get_current_track_with_retry: the Err returned when the attempts are used up
RetryExhausted(last) ==
    Err("SpotifyApiError",
        <<"Failed to get current track after ", Len(retry_delays), " attempts: ",
          IF last # None THEN last[1] ELSE "Unknown error">>)

\* LyricsifyError's Display, for the SpotifyApiError variant
ErrorToString(e) == <<"Spotify API error: ">> \o e.val[2]

\* a comparison that reports a change on every poll
AlwaysChanged(current, new_track) == TRUE

\* start_polling: *current != new_track
HasChanged(current, new_track) == current # new_track

\* an update that keeps the last track when nothing is playing
StoreUnlessNone(current, new_track) ==
    IF new_track = None THEN current ELSE new_track

\* start_polling: *current = new_track.clone()
StoreTrack(current, new_track) == new_track

\* the event the polling loop sends for a result it has to report
EventFor(result) ==
    IF result.ok THEN TrackChanged(result.val[1])
    ELSE SpotifyError(ErrorToString(result))

\* the poll cycle is over and the loop goes round: the history gets its entry
EndCycle(result, events) ==
    /\ pollLog' = Append(pollLog, [result |-> result, events |-> events])
    /\ poll_pc' = "tick"
    /\ poll_result' = None

\* App::initialize: start_polling spawns the polling task
StartPolling ==
    /\ poll_pc = "idle"
    /\ poll_pc' = "tick"
    /\ UNCHANGED <<current_track, attempt, last_error, poll_result, retryLog, pollLog>>
    /\ UNCHANGED <<cacheVars, fetchVars, loopVars, authVars, sessionVars, appVars, auxVars>>

\* the interval ticks and get_current_track_with_retry is entered
Tick ==
    /\ poll_pc = "tick"
    /\ Len(pollLog) < MaxPolls
    /\ poll_pc' = "request"
    /\ attempt' = 0
    /\ last_error' = None
    /\ retryLog' = NoRetry
    /\ UNCHANGED <<current_track, poll_result, pollLog>>
    /\ UNCHANGED <<cacheVars, fetchVars, loopVars, authVars, sessionVars, appVars, auxVars>>

\* the retry loop moves past the attempt with index i: the next attempt, or
\* the Err of a used-up loop handed to the polling loop
NextAttempt(i, last) ==
    IF i + 1 < Len(retry_delays)
    THEN /\ attempt' = i + 1
         /\ poll_pc' = "request"
         /\ UNCHANGED poll_result
    ELSE /\ attempt' = i
         /\ poll_pc' = "send"
         /\ poll_result' = Some(RetryExhausted(last))

\* one attempt of the retry loop is answered; on success the polling loop
\* compares and stores the track (under the current_track lock) and either
\* goes on to send TrackChanged or ends the cycle
Request(resp) ==
    /\ poll_pc = "request"
    /\ retryLog' = [retryLog EXCEPT !.attempts = Append(@, resp)]
    /\ IF resp.ok
       THEN LET new_track == ResolvePlaying(resp)
            IN  /\ UNCHANGED <<attempt, last_error>>
                /\ IF HasChanged(current_track, new_track)
                   THEN /\ current_track' = StoreTrack(current_track, new_track)
                        /\ IF new_track # None
                           THEN /\ poll_pc' = "send"
                                /\ poll_result' = Some(Ok(new_track))
                                /\ UNCHANGED pollLog
                           ELSE EndCycle(Ok(new_track), <<>>)
                   ELSE /\ UNCHANGED current_track
                        /\ EndCycle(Ok(new_track), <<>>)
       ELSE /\ last_error' = RecordError(last_error, resp.error)
            /\ UNCHANGED <<current_track, pollLog>>
            /\ IF SleepsAfter(attempt)
               THEN /\ poll_pc' = "sleep"
                    /\ UNCHANGED <<attempt, poll_result>>
               ELSE NextAttempt(attempt, RecordError(last_error, resp.error))
    /\ UNCHANGED <<cacheVars, fetchVars, loopVars, authVars, sessionVars, appVars, auxVars>>

\* tokio::time::sleep(delay_secs) after a failed attempt is over
Sleep ==
    /\ poll_pc = "sleep"
    /\ retryLog' = [retryLog EXCEPT !.delays = Append(@, retry_delays[attempt + 1])]
    /\ NextAttempt(attempt, last_error)
    /\ UNCHANGED <<current_track, last_error, pollLog>>
    /\ UNCHANGED <<cacheVars, fetchVars, loopVars, authVars, sessionVars, appVars, auxVars>>

\* start_polling: the guard `current` on current_track lives from its
\* lock().await to the end of the Ok arm, so it is held while the send of
\* TrackChanged is awaited; the Err arm takes no guard
CurrentTrackGuardHeld ==
    poll_pc = "send" /\ poll_result # None /\ poll_result[1].ok

\* the polling task is suspended: in the interval's tick, in a query of the
\* playback endpoint, in a backoff sleep, or in a send on a full channel
PollerSuspended ==
    \/ poll_pc \in {"tick", "request", "sleep"}
    \/ poll_pc = "send" /\ ~rx_closed /\ Len(channel) >= ChannelCap

\* event_tx.send(..).await of the polling loop returns: with an error when the
\* receiver is gone, and the loop breaks; else once the channel has room
Send ==
    /\ poll_pc = "send"
    /\ IF rx_closed
       THEN /\ poll_pc' = "terminated"
            /\ UNCHANGED <<channel, pollLog, poll_result>>
       ELSE /\ Len(channel) < ChannelCap
            /\ channel' = Append(channel, EventFor(poll_result[1]))
            /\ EndCycle(poll_result[1], <<EventFor(poll_result[1])>>)
    /\ UNCHANGED <<current_track, attempt, last_error, retryLog>>
    /\ UNCHANGED <<rx_closed, overlay_text, run_pc, handling, pending>>
    /\ UNCHANGED <<cacheVars, fetchVars, authVars, sessionVars, appVars, auxVars>>

\* App::run takes the next event off the channel
ReceiverTakes ==
    /\ ~rx_closed
    /\ channel # <<>>
    /\ channel' = Tail(channel)
    /\ UNCHANGED <<rx_closed, overlay_text, run_pc, handling, pending>>
    /\ UNCHANGED <<cacheVars, fetchVars, pollVars, authVars, sessionVars, appVars, auxVars>>

\* App::run has returned and the receiver is dropped with what it still held
ReceiverDropped ==
    /\ ~rx_closed
    /\ rx_closed' = TRUE
    /\ channel' = <<>>
    /\ run_pc' = "exited"
    /\ UNCHANGED <<overlay_text, handling, pending>>
    /\ UNCHANGED <<cacheVars, fetchVars, pollVars, authVars, sessionVars, appVars, auxVars>>

InitPoller == CacheInit /\ FetchInit /\ LoopInit /\ PollIdle /\ AuthIdle

NextPoller ==
    \/ StartPolling
    \/ Tick
    \/ \E resp \in PlayingResponses : Request(resp)
    \/ Sleep
    \/ Send
    \/ ReceiverTakes
    \/ ReceiverDropped

SpecPoller == InitPoller /\ [][NextPoller]_vars

Max(S) == CHOOSE x \in S : \A y \in S : y <= x

\* the track known before poll cycle i, read off the history: the value of
\* the last successful cycle before i, None when there is none
PrevKnown(i) ==
    LET oks == {j \in 1..(i - 1) : pollLog[j].result.ok}
    IN  IF oks = {} THEN None ELSE pollLog[Max(oks)].result.val

RECURSIVE EventsUpTo(_)
\* the events sent in the first n poll cycles, in order
EventsUpTo(n) == IF n = 0 THEN <<>> ELSE EventsUpTo(n - 1) \o pollLog[n].events

IsSuffix(s, t) ==
    /\ Len(s) <= Len(t)
    /\ \A i \in 1..Len(s) : s[i] = t[Len(t) - Len(s) + i]

\* C6: over successful polls, TrackChanged is sent exactly for the polls whose
\* result is a track different from the last-known one (none at first): the
\* same track twice in a row gives one event, and A, A, B gives
\* TrackChanged(A) then TrackChanged(B). The events on the channel are the
\* latest of the ones so sent.
C6_TrackChangedExactlyOnChange ==
    /\ \A i \in 1..Len(pollLog) :
          pollLog[i].result.ok =>
              LET new == pollLog[i].result.val
              IN  pollLog[i].events =
                      IF new # None /\ new # PrevKnown(i)
                      THEN <<TrackChanged(new[1])>>
                      ELSE <<>>
    /\ ~rx_closed => IsSuffix(channel, EventsUpTo(Len(pollLog)))

\* C6 witness: the polls saw A, A, B and exactly TrackChanged(A),
\* TrackChanged(B) were sent.
C6_Witness ==
    /\ Len(pollLog) = 3
    /\ pollLog[1].result = Ok(Some(TrackA))
    /\ pollLog[2].result = Ok(Some(TrackA))
    /\ pollLog[3].result = Ok(Some(TrackB))
    /\ EventsUpTo(3) = <<TrackChanged(TrackA), TrackChanged(TrackB)>>

\* C7: a poll that finds no track sends nothing and leaves last-known-track
\* none; a track seen while last-known-track is none is reported, also when
\* it is the track that was known before.
C7_NoTrackClearsSilently ==
    /\ \A i \in 1..Len(pollLog) :
          pollLog[i].result = Ok(None) => pollLog[i].events = <<>>
    /\ (poll_pc = "tick" /\ PrevKnown(Len(pollLog) + 1) = None) =>
          current_track = None
    /\ \A j \in 1..Len(pollLog) :
          (pollLog[j].result.ok /\ pollLog[j].result.val # None
              /\ PrevKnown(j) = None) =>
                  pollLog[j].events = <<TrackChanged(pollLog[j].result.val[1])>>

\* C7 witness: A was known, an episode was playing at the next poll, then A
\* again: TrackChanged(A) was sent twice with nothing in between.
C7_Witness ==
    /\ Len(pollLog) = 3
    /\ pollLog[1].result = Ok(Some(TrackA))
    /\ pollLog[2].result = Ok(None)
    /\ pollLog[3].result = Ok(Some(TrackA))
    /\ EventsUpTo(3) = <<TrackChanged(TrackA), TrackChanged(TrackA)>>

\* C8: a poll cycle whose attempts all fail sends exactly one SpotifyError
\* carrying the last attempt's error message, leaves last-known-track as it
\* was, and the loop goes on; the loop ends only when the receiver is gone.
C8_ExhaustedRetriesReportOnce ==
    /\ \A i \in 1..Len(pollLog) :
          ~pollLog[i].result.ok =>
              /\ Len(pollLog[i].events) = 1
              /\ pollLog[i].events[1].kind = "SpotifyError"
    /\ (poll_pc = "tick" /\ Len(pollLog) > 0
            /\ ~pollLog[Len(pollLog)].result.ok) =>
          LET a == retryLog.attempts
              m == pollLog[Len(pollLog)].events[1].message
          IN  /\ Len(a) = Len(retry_delays)
              /\ \A k \in 1..Len(a) : ~a[k].ok
              /\ m # <<>>
              /\ m[Len(m)] = a[Len(a)].error
              /\ current_track = PrevKnown(Len(pollLog))
    /\ poll_pc = "terminated" => rx_closed

\* C8 witness: A is known, then two cycles in a row fail, the last one with
\* different errors on its first and last attempt; the loop is at its next
\* tick and A is still the known track.
C8_Witness ==
    /\ Len(pollLog) = 3
    /\ poll_pc = "tick"
    /\ pollLog[1].result = Ok(Some(TrackA))
    /\ ~pollLog[2].result.ok
    /\ ~pollLog[3].result.ok
    /\ Len(retryLog.attempts) = 3
    /\ retryLog.attempts[1].error # retryLog.attempts[3].error
    /\ current_track = Some(TrackA)

\* the result of the poll cycle whose attempts retryLog holds, once it is over
CycleResult ==
    IF poll_pc = "tick" THEN pollLog[Len(pollLog)].result ELSE poll_result[1]

\* C9: a poll cycle makes at most 3 attempts and stops at the first success;
\* it sleeps 1 s after a failed first attempt and 2 s after a failed second
\* one, and not after a success or a failed third attempt; fail, fail,
\* succeed yields the successful result.
C9_RetryBackoff ==
    LET a == retryLog.attempts
        d == retryLog.delays
        n == Len(a)
    IN  /\ n <= 3
        /\ \A k \in 1..(n - 1) : ~a[k].ok
        /\ Len(d) <= 2
        /\ \A k \in 1..Len(d) : d[k] = IF k = 1 THEN 1 ELSE 2
        /\ poll_pc = "request" => Len(d) = n
        /\ poll_pc = "sleep" => (~a[n].ok /\ Len(d) = n - 1)
        /\ (poll_pc \in {"tick", "send", "terminated"} /\ n > 0) =>
              IF a[n].ok
              THEN /\ Len(d) = n - 1
                   /\ CycleResult = Ok(ResolvePlaying(a[n]))
              ELSE /\ n = 3
                   /\ Len(d) = 2
                   /\ ~CycleResult.ok

\* C9 witness: attempts 1 and 2 failed, attempt 3 found track B, the sleeps
\* were 1 s and 2 s, and the cycle's result is B.
C9_Witness ==
    /\ poll_pc = "tick"
    /\ Len(retryLog.attempts) = 3
    /\ ~retryLog.attempts[1].ok
    /\ ~retryLog.attempts[2].ok
    /\ retryLog.attempts[3].ok
    /\ retryLog.delays = <<1, 2>>
    /\ pollLog[Len(pollLog)].result = Ok(Some(TrackB))

(***************************************************************************)
(* The token held by the client and its validity check.                    *)
(***************************************************************************)
\* is_token_valid: chrono::Duration::seconds(60)
RefreshBuffer == 60

\* the expiry times a token is given: already past, and around now + 60 s
ExpiryTimes ==
    (0..MaxNow) \cup
    ((RefreshBuffer - MaxSlack)..(RefreshBuffer + MaxNow + MaxSlack))

\* rspotify's Token, as far as the program reads it
Tokens ==
    {[access_token |-> "access-1", refresh_token |-> Some("refresh-1"),
      expires_at |-> e,
      scopes |-> {"user-read-currently-playing", "user-read-playback-state"}] :
        e \in {None} \cup {Some(t) : t \in ExpiryTimes}}

\* a validity check that accepts a token expiring exactly 60 s from now
IsTokenValidInclusive(tok, t) ==
    IF tok # None
    THEN IF tok[1].expires_at # None
         THEN tok[1].expires_at[1] >= t + RefreshBuffer
         ELSE FALSE
    ELSE FALSE

\* SpotifyClient::is_token_valid for the token held, called at time t
IsTokenValid(tok, t) ==
    IF tok # None
    THEN IF tok[1].expires_at # None
         THEN tok[1].expires_at[1] > t + RefreshBuffer
         ELSE FALSE
    ELSE FALSE

\* SpotifyClient::set_token
SetToken(tok) ==
    /\ token' = Some(tok)
    /\ UNCHANGED <<now, valid_ret>>
    /\ UNCHANGED <<cacheVars, fetchVars, loopVars, pollVars, sessionVars, appVars, auxVars>>

\* a second passes on the wall clock
AdvanceTime ==
    /\ now < MaxNow
    /\ now' = now + 1
    /\ UNCHANGED <<token, valid_ret>>
    /\ UNCHANGED <<cacheVars, fetchVars, loopVars, pollVars, sessionVars, appVars, auxVars>>

\* a call of SpotifyClient::is_token_valid
CheckTokenValid ==
    /\ valid_ret' = Some([value |-> IsTokenValid(token, now),
                          at |-> now, token |-> token])
    /\ UNCHANGED <<token, now>>
    /\ UNCHANGED <<cacheVars, fetchVars, loopVars, pollVars, sessionVars, appVars, auxVars>>

InitAuth == CacheInit /\ FetchInit /\ LoopInit /\ PollIdle /\ AuthIdle

NextAuth ==
    \/ \E tok \in Tokens : SetToken(tok)
    \/ AdvanceTime
    \/ CheckTokenValid

SpecAuth == InitAuth /\ [][NextAuth]_vars

\* the last is_token_valid call was made on a token that has an expiry
CheckedWithExpiry ==
    /\ valid_ret # None
    /\ valid_ret[1].token # None
    /\ valid_ret[1].token[1].expires_at # None

\* seconds from the last is_token_valid call to the expiry of its token
SecondsLeft == valid_ret[1].token[1].expires_at[1] - valid_ret[1].at

\* C10: for a token with an expiry, is_valid() is true exactly when
\* expires_at is more than 60 seconds after the current time: expiring at
\* now + 59 s is invalid, at now + 61 s valid.
C10_ValidIffMoreThan60s ==
    CheckedWithExpiry =>
        /\ valid_ret[1].value <=> SecondsLeft > 60
        /\ SecondsLeft = 59 => ~valid_ret[1].value
        /\ SecondsLeft = 61 => valid_ret[1].value

\* C10 witness: after the clock moved, a token expiring 61 s later was found
\* valid.
C10_Witness ==
    /\ CheckedWithExpiry
    /\ valid_ret[1].at > 0
    /\ SecondsLeft = 61
    /\ valid_ret[1].value

(***************************************************************************)
(* The token's life: the keychain entry, refresh, ensure_token_valid and   *)
(* initialize.                                                             *)
(***************************************************************************)
\* lifetime in seconds of the token a refresh exchange returns
FreshLifetime == 3600

\* the elements of a set in some order: HashSet::into_iter().collect()
RECURSIVE SetToSeq(_)
SetToSeq(S) ==
    IF S = {} THEN <<>>
    ELSE LET x == CHOOSE y \in S : TRUE IN <<x>> \o SetToSeq(S \ {x})

\* the elements of a sequence: Vec::into_iter().collect() into a HashSet
SeqToSet(s) == {s[i] : i \in DOMAIN s}

\* save_token_to_keychain: the StoredToken built from a Token
ToStoredToken(tok) ==
    [access_token |-> tok.access_token, refresh_token |-> tok.refresh_token,
     expires_at |-> tok.expires_at, scopes |-> SetToSeq(tok.scopes)]

\* load_token_from_keychain: the Token built from a StoredToken
FromStoredToken(stored) ==
    [access_token |-> stored.access_token, refresh_token |-> stored.refresh_token,
     expires_at |-> stored.expires_at, scopes |-> SeqToSet(stored.scopes)]

\* serde_json::to_string: a password is the document of one StoredToken
ToJson(stored) == <<stored>>

\* a password that is not the JSON of a StoredToken
Unreadable == <<>>

\* serde_json::from_str::<StoredToken>
FromJson(json) ==
    IF Len(json) = 1 THEN Ok(json[1])
    ELSE Err("SerializationError", "expected value")

\* the password save_token_to_keychain stores for a token
Serialized(tok) == ToJson(ToStoredToken(tok))

\* the tokens of a session: one never valid, one valid for the first seconds
\* only, one valid throughout, one without expiry
SessionTokens ==
    {tok \in Tokens :
        tok.expires_at \in {None, Some(RefreshBuffer), Some(RefreshBuffer + 2),
                            Some(RefreshBuffer + MaxNow + MaxSlack)}}

\* what the keychain can hold when the program starts
KeychainStates ==
    {None, Some(Unreadable)} \cup {Some(Serialized(tok)) : tok \in SessionTokens}

\* the token rspotify holds after it refreshed tok at time t
RefreshedToken(tok, t) ==
    [tok EXCEPT !.access_token = "access-2",
                !.expires_at = Some(t + FreshLifetime)]

\* how client.current_user() can end: rspotify refreshed the token and the
\* request succeeded, the request succeeded with the token as it was, or the
\* call failed
ExchangeOutcomes == {"refreshed", "unchanged", "failed"}

\* client.current_user() with the token held, called at time t
CurrentUser(tok, t, outcome) ==
    [ok |-> outcome # "failed",
     token |-> IF outcome = "refreshed"
               THEN Some(RefreshedToken(tok[1], t)) ELSE tok]

\* SpotifyClient::save_token_to_keychain; kc_ok: the keychain can be written
SaveTokenToKeychain(tok, kc, kc_ok) ==
    IF tok # None
    THEN IF kc_ok
         THEN [keychain |-> Some(Serialized(tok[1])), ret |-> Ok(<<>>)]
         ELSE [keychain |-> kc, ret |-> Err("KeyringError", "platform failure")]
    ELSE [keychain |-> kc,
          ret |-> Err("AuthenticationFailed", "No token available to save")]

\* SpotifyClient::clear_token_from_keychain; kc_ok: the entry can be deleted
\* (a missing entry counts as deleted)
ClearTokenFromKeychain(kc, kc_ok) ==
    IF kc_ok
    THEN [keychain |-> None, ret |-> Ok(<<>>)]
    ELSE [keychain |-> kc, ret |-> Err("KeyringError", "platform failure")]

\* SpotifyClient::is_authenticated
IsAuthenticated(tok) == tok # None

\* a refresh_token that tries the exchange a second time when it failed
RefreshTokenRetrying(tok, kc, t, outcome, kc_ok) ==
    IF ~IsAuthenticated(tok)
    THEN [token |-> tok, keychain |-> kc, exchange |-> <<>>, store |-> <<>>,
          ret |-> Err("AuthenticationFailed", "No token available to refresh")]
    ELSE LET user == CurrentUser(tok, t, outcome) IN
         IF user.ok
         THEN LET saved == SaveTokenToKeychain(user.token, kc, kc_ok) IN
              [token |-> user.token, keychain |-> saved.keychain,
               exchange |-> <<outcome>>,
               store |-> <<[op |-> "set", ok |-> saved.ret.ok]>>,
               ret |-> saved.ret]
         ELSE LET cleared == ClearTokenFromKeychain(kc, kc_ok) IN
              [token |-> user.token, keychain |-> cleared.keychain,
               exchange |-> <<outcome, outcome>>,
               store |-> <<[op |-> "delete", ok |-> cleared.ret.ok]>>,
               ret |-> Err("AuthenticationFailed",
                           "Token refresh failed, re-authentication required")]

\* a refresh_token that clears the keychain entry when saving the token failed
RefreshTokenClearOnSaveError(tok, kc, t, outcome, kc_ok) ==
    IF ~IsAuthenticated(tok)
    THEN [token |-> tok, keychain |-> kc, exchange |-> <<>>, store |-> <<>>,
          ret |-> Err("AuthenticationFailed", "No token available to refresh")]
    ELSE LET user == CurrentUser(tok, t, outcome) IN
         IF user.ok
         THEN LET saved == SaveTokenToKeychain(user.token, kc, kc_ok) IN
              [token |-> user.token,
               keychain |-> IF saved.ret.ok THEN saved.keychain ELSE None,
               exchange |-> <<outcome>>,
               store |-> <<[op |-> "set", ok |-> saved.ret.ok]>>,
               ret |-> saved.ret]
         ELSE LET cleared == ClearTokenFromKeychain(kc, kc_ok) IN
              [token |-> user.token, keychain |-> cleared.keychain,
               exchange |-> <<outcome>>,
               store |-> <<[op |-> "delete", ok |-> cleared.ret.ok]>>,
               ret |-> Err("AuthenticationFailed",
                           "Token refresh failed, re-authentication required")]

\* SpotifyClient::refresh_token, called at time t. outcome: how the exchange
\* ends; kc_ok: whether the keychain operation it makes succeeds. exchange
\* and store list the exchanges and keychain operations it made.
RefreshToken(tok, kc, t, outcome, kc_ok) ==
    IF ~IsAuthenticated(tok)
    THEN [token |-> tok, keychain |-> kc, exchange |-> <<>>, store |-> <<>>,
          ret |-> Err("AuthenticationFailed", "No token available to refresh")]
    ELSE LET user == CurrentUser(tok, t, outcome) IN
         IF user.ok
         THEN LET saved == SaveTokenToKeychain(user.token, kc, kc_ok) IN
              [token |-> user.token, keychain |-> saved.keychain,
               exchange |-> <<outcome>>,
               store |-> <<[op |-> "set", ok |-> saved.ret.ok]>>,
               ret |-> saved.ret]
         ELSE LET cleared == ClearTokenFromKeychain(kc, kc_ok) IN
              [token |-> user.token, keychain |-> cleared.keychain,
               exchange |-> <<outcome>>,
               store |-> <<[op |-> "delete", ok |-> cleared.ret.ok]>>,
               ret |-> Err("AuthenticationFailed",
                           "Token refresh failed, re-authentication required")]

\* an ensure_token_valid that refreshes whatever is_token_valid says
EnsureTokenValidAlwaysRefresh(tok, kc, t, outcome, kc_ok) ==
    IF ~IsAuthenticated(tok)
    THEN [token |-> tok, keychain |-> kc, exchange |-> <<>>, store |-> <<>>,
          refreshes |-> 0, valid |-> None,
          ret |-> Err("AuthenticationFailed", "Not authenticated")]
    ELSE LET r == RefreshToken(tok, kc, t, outcome, kc_ok) IN
         [token |-> r.token, keychain |-> r.keychain,
          exchange |-> r.exchange, store |-> r.store,
          refreshes |-> 1, valid |-> Some(IsTokenValid(tok, t)),
          ret |-> r.ret]

\* SpotifyClient::ensure_token_valid, called at time t. refreshes counts its
\* refresh_token calls; valid is what its is_token_valid call returned.
EnsureTokenValid(tok, kc, t, outcome, kc_ok) ==
    IF ~IsAuthenticated(tok)
    THEN [token |-> tok, keychain |-> kc, exchange |-> <<>>, store |-> <<>>,
          refreshes |-> 0, valid |-> None,
          ret |-> Err("AuthenticationFailed", "Not authenticated")]
    ELSE IF ~IsTokenValid(tok, t)
         THEN LET r == RefreshToken(tok, kc, t, outcome, kc_ok) IN
              [token |-> r.token, keychain |-> r.keychain,
               exchange |-> r.exchange, store |-> r.store,
               refreshes |-> 1, valid |-> Some(FALSE),
               ret |-> IF r.ret.ok THEN Ok(<<>>) ELSE r.ret]
         ELSE [token |-> tok, keychain |-> kc, exchange |-> <<>>,
               store |-> <<>>, refreshes |-> 0, valid |-> Some(TRUE),
               ret |-> Ok(<<>>)]

\* SpotifyClient::load_token_from_keychain; kc_ok: the keychain can be read
LoadTokenFromKeychain(tok, kc, kc_ok) ==
    IF ~kc_ok
    THEN [token |-> tok, ret |-> Err("KeyringError", "platform failure")]
    ELSE IF kc = None
         THEN [token |-> tok, ret |-> Ok(FALSE)]
         ELSE LET stored_token == FromJson(kc[1]) IN
              IF stored_token.ok
              THEN [token |-> Some(FromStoredToken(stored_token.val)),
                    ret |-> Ok(TRUE)]
              ELSE [token |-> tok, ret |-> stored_token]

\* an initialize that returns the error of a failed refresh
InitializeRefreshError(tok, kc, t, load_ok, outcome, kc_ok) ==
    LET loaded == LoadTokenFromKeychain(tok, kc, load_ok) IN
    LET r == RefreshToken(loaded.token, kc, t, outcome, kc_ok) IN
    IF loaded.ret.ok /\ loaded.ret.val /\ ~IsTokenValid(loaded.token, t)
    THEN [token |-> r.token, keychain |-> r.keychain,
          exchange |-> r.exchange,
          store |-> <<[op |-> "get", ok |-> TRUE]>> \o r.store,
          refreshes |-> 1, valid |-> Some(FALSE),
          ret |-> IF r.ret.ok THEN Ok(TRUE) ELSE r.ret]
    ELSE [token |-> loaded.token, keychain |-> kc, exchange |-> <<>>,
          store |-> <<[op |-> "get", ok |-> load_ok]>>, refreshes |-> 0,
          valid |-> IF loaded.ret.ok /\ loaded.ret.val
                    THEN Some(TRUE) ELSE None,
          ret |-> IF loaded.ret.ok /\ ~loaded.ret.val
                  THEN Ok(FALSE) ELSE loaded.ret]

\* SpotifyClient::initialize, called at time t. load_ok: whether the keychain
\* can be read; outcome, kc_ok: as for refresh_token.
Initialize(tok, kc, t, load_ok, outcome, kc_ok) ==
    LET loaded == LoadTokenFromKeychain(tok, kc, load_ok)
        got == <<[op |-> "get", ok |-> load_ok]>>
    IN
    IF ~loaded.ret.ok
    THEN [token |-> loaded.token, keychain |-> kc, exchange |-> <<>>,
          store |-> got, refreshes |-> 0, valid |-> None,
          ret |-> loaded.ret]
    ELSE IF ~loaded.ret.val
         THEN [token |-> loaded.token, keychain |-> kc, exchange |-> <<>>,
               store |-> got, refreshes |-> 0, valid |-> None,
               ret |-> Ok(FALSE)]
         ELSE IF IsTokenValid(loaded.token, t)
              THEN [token |-> loaded.token, keychain |-> kc,
                    exchange |-> <<>>, store |-> got, refreshes |-> 0,
                    valid |-> Some(TRUE), ret |-> Ok(TRUE)]
              ELSE LET r == RefreshToken(loaded.token, kc, t, outcome, kc_ok) IN
                   [token |-> r.token, keychain |-> r.keychain,
                    exchange |-> r.exchange, store |-> got \o r.store,
                    refreshes |-> 1, valid |-> Some(FALSE),
                    ret |-> IF r.ret.ok THEN Ok(TRUE) ELSE Ok(FALSE)]

\* the record of a call: what it was given, what it did and what it left
CallRecord(op, r, refreshes, valid) ==
    [op |-> op, ret |-> r.ret, exchange |-> r.exchange, store |-> r.store,
     refreshes |-> refreshes, valid |-> valid,
     token |-> token, keychain |-> keychain,
     token_after |-> r.token, keychain_after |-> r.keychain, at |-> now]

\* a call of SpotifyClient::refresh_token
CallRefreshToken(outcome, kc_ok) ==
    LET r == RefreshToken(token, keychain, now, outcome, kc_ok) IN
    /\ token' = r.token
    /\ keychain' = r.keychain
    /\ last_call' = CallRecord("refresh_token", r, 1, None)
    /\ UNCHANGED <<now, valid_ret>>
    /\ UNCHANGED <<cacheVars, fetchVars, loopVars, pollVars, appVars, auxVars>>

\* a call of SpotifyClient::ensure_token_valid
CallEnsureTokenValid(outcome, kc_ok) ==
    LET r == EnsureTokenValid(token, keychain, now, outcome, kc_ok) IN
    /\ token' = r.token
    /\ keychain' = r.keychain
    /\ last_call' = CallRecord("ensure_token_valid", r, r.refreshes, r.valid)
    /\ UNCHANGED <<now, valid_ret>>
    /\ UNCHANGED <<cacheVars, fetchVars, loopVars, pollVars, appVars, auxVars>>

\* a call of SpotifyClient::initialize
CallInitialize(load_ok, outcome, kc_ok) ==
    LET r == Initialize(token, keychain, now, load_ok, outcome, kc_ok) IN
    /\ token' = r.token
    /\ keychain' = r.keychain
    /\ last_call' = CallRecord("initialize", r, r.refreshes, r.valid)
    /\ UNCHANGED <<now, valid_ret>>
    /\ UNCHANGED <<cacheVars, fetchVars, loopVars, pollVars, appVars, auxVars>>

\* a process starts with no token in memory and whatever the keychain holds
InitSession ==
    /\ CacheInit /\ FetchInit /\ LoopInit /\ PollIdle
    /\ token = None
    /\ now = 0
    /\ valid_ret = None
    /\ keychain \in KeychainStates
    /\ last_call = NoCall

NextSession ==
    \/ \E tok \in SessionTokens : SetToken(tok)
    \/ AdvanceTime
    \/ \E outcome \in ExchangeOutcomes, kc_ok \in BOOLEAN :
            CallRefreshToken(outcome, kc_ok)
    \/ \E outcome \in ExchangeOutcomes, kc_ok \in BOOLEAN :
            CallEnsureTokenValid(outcome, kc_ok)
    \/ \E load_ok \in BOOLEAN, outcome \in ExchangeOutcomes, kc_ok \in BOOLEAN :
            CallInitialize(load_ok, outcome, kc_ok)

SpecSession == InitSession /\ [][NextSession]_vars

\* the last call checked the validity of a token that has no expiry: the one
\* held (ensure_token_valid) or the one loaded from the keychain (initialize)
NoExpiryChecked ==
    \/ /\ last_call.op = "ensure_token_valid"
       /\ last_call.token # None
       /\ last_call.token[1].expires_at = None
    \/ /\ last_call.op = "initialize"
       /\ last_call.store[1].ok
       /\ last_call.keychain # None
       /\ FromJson(last_call.keychain[1]).ok
       /\ FromJson(last_call.keychain[1]).val.expires_at = None

\* C11: a token that is present and has no expires_at is found valid, so
\* ensure_token_valid and initialize make no refresh (and no exchange) for it.
C11_NoExpiryIsValid ==
    NoExpiryChecked =>
        /\ last_call.valid = Some(TRUE)
        /\ last_call.refreshes = 0
        /\ last_call.exchange = <<>>

\* the result is the error AuthenticationFailed
IsAuthenticationFailed(ret) == ~ret.ok /\ ret.val[1] = "AuthenticationFailed"

\* C12: ensure_token_valid with no token held fails at once with
\* AuthenticationFailed and makes no remote call; with a token held it calls
\* refresh_token exactly when is_token_valid returned false, and when
\* is_token_valid returned true it succeeds without any remote call.
C12_EnsureRefreshesIffInvalid ==
    last_call.op = "ensure_token_valid" =>
        /\ last_call.token = None =>
               /\ IsAuthenticationFailed(last_call.ret)
               /\ last_call.valid = None
               /\ last_call.refreshes = 0
               /\ last_call.exchange = <<>>
        /\ last_call.token # None =>
               /\ last_call.valid =
                      Some(IsTokenValid(last_call.token, last_call.at))
               /\ last_call.refreshes = 1 <=> last_call.valid = Some(FALSE)
               /\ last_call.refreshes = 0 <=> last_call.valid = Some(TRUE)
        /\ last_call.valid = Some(TRUE) =>
               /\ last_call.ret.ok
               /\ last_call.exchange = <<>>
               /\ last_call.store = <<>>

\* C12 witness: a token that was valid when the client got it has come within
\* 60 s of its expiry, and ensure_token_valid refreshed it and succeeded.
C12_Witness ==
    /\ last_call.op = "ensure_token_valid"
    /\ last_call.token # None
    /\ last_call.token[1].expires_at = Some(RefreshBuffer + 2)
    /\ last_call.at >= 2
    /\ last_call.valid = Some(FALSE)
    /\ last_call.refreshes = 1
    /\ last_call.exchange = <<"refreshed">>
    /\ last_call.ret.ok

\* the exchange of the last call was made and failed
ExchangeFailed(call) ==
    call.exchange # <<>> /\ call.exchange[Len(call.exchange)] = "failed"

CallKey(call) ==
    <<call.op, call.at, call.token, call.keychain, call.exchange, call.store>>

\* the last step was a call of refresh_token, ensure_token_valid or initialize
CallMade == CallKey(last_call') # CallKey(last_call)

\* C14: after a failed refresh no token is held in memory and none is in the
\* keychain, so an ensure_token_valid that follows fails at once as not
\* authenticated, without an exchange.
C14_RefreshFailureClearsToken ==
    [][/\ (CallMade /\ ExchangeFailed(last_call')) =>
              /\ token' = None
              /\ keychain' = None
       /\ (/\ ExchangeFailed(last_call)
           /\ token = last_call.token_after
           /\ CallMade
           /\ last_call'.op = "ensure_token_valid") =>
              /\ IsAuthenticationFailed(last_call'.ret)
              /\ last_call'.refreshes = 0
              /\ last_call'.exchange = <<>>]_vars

\* the last call ran refresh_token, directly or from ensure_token_valid, and
\* returned what refresh_token returned
RanRefresh ==
    /\ last_call.op \in {"refresh_token", "ensure_token_valid"}
    /\ last_call.refreshes = 1
    /\ last_call.token # None

\* C15: whenever refresh_token returns Ok, the keychain holds the serialized
\* form of the token the client holds; when the exchange succeeded and saving
\* to the keychain failed, refresh_token returns an error and the keychain
\* entry is what it was before the call.
C15_SuccessMeansPersisted ==
    RanRefresh =>
        /\ last_call.ret.ok =>
               /\ last_call.token_after # None
               /\ last_call.keychain_after =
                      Some(Serialized(last_call.token_after[1]))
        /\ (/\ ~ExchangeFailed(last_call)
            /\ ~last_call.store[Len(last_call.store)].ok) =>
               /\ ~last_call.ret.ok
               /\ last_call.store = <<[op |-> "set", ok |-> FALSE]>>
               /\ last_call.keychain_after = last_call.keychain

\* C15 witness: refresh_token replaced the token, and the keychain entry of
\* the old token was overwritten with the new token's.
C15_Witness ==
    /\ last_call.op = "refresh_token"
    /\ last_call.ret.ok
    /\ last_call.exchange = <<"refreshed">>
    /\ last_call.keychain = Some(Serialized(last_call.token[1]))
    /\ last_call.token_after # last_call.token
    /\ keychain = Some(Serialized(token[1]))
    /\ keychain # last_call.keychain

\* the last call was an initialize that could read the keychain
InitializeRead ==
    /\ last_call.op = "initialize"
    /\ last_call.store[1] = [op |-> "get", ok |-> TRUE]

\* the token initialize loaded from the keychain entry it found
LoadedToken == FromStoredToken(FromJson(last_call.keychain[1]).val)

\* the refresh_token call made by the last call returned Ok
RefreshSucceeded ==
    /\ ~ExchangeFailed(last_call)
    /\ last_call.store[Len(last_call.store)] = [op |-> "set", ok |-> TRUE]

\* C16: initialize returns false when the keychain holds no token; returns
\* true without a refresh when the stored token is found valid; and when the
\* stored token is found invalid it calls refresh_token exactly once (one
\* exchange) and returns true if that call succeeded and false if it failed,
\* never an error.
C16_InitializeOutcomes ==
    InitializeRead =>
        /\ last_call.keychain = None =>
               /\ last_call.ret.ok /\ ~last_call.ret.val
               /\ last_call.refreshes = 0
               /\ last_call.exchange = <<>>
        /\ (last_call.keychain # None /\ FromJson(last_call.keychain[1]).ok) =>
               /\ last_call.valid =
                      Some(IsTokenValid(Some(LoadedToken), last_call.at))
               /\ last_call.valid = Some(TRUE) =>
                      /\ last_call.ret.ok /\ last_call.ret.val
                      /\ last_call.refreshes = 0
                      /\ last_call.exchange = <<>>
                      /\ last_call.token_after = Some(LoadedToken)
               /\ last_call.valid = Some(FALSE) =>
                      /\ last_call.refreshes = 1
                      /\ Len(last_call.exchange) = 1
                      /\ last_call.ret.ok
                      /\ last_call.ret.val <=> RefreshSucceeded

\* C16 witness: the stored token was expired, the one refresh failed, and
\* initialize returned false.
C16_Witness ==
    /\ InitializeRead
    /\ last_call.keychain # None
    /\ FromJson(last_call.keychain[1]).ok
    /\ LoadedToken.expires_at = Some(RefreshBuffer)
    /\ last_call.exchange = <<"failed">>
    /\ last_call.refreshes = 1
    /\ last_call.ret.ok
    /\ ~last_call.ret.val

(***************************************************************************)
(* The application: main, App::new, App::initialize and the event loop of  *)
(* App::run with its producers.                                            *)
(***************************************************************************)
\* a JSON value as far as an AppConfig's coordinates need it: null, or a
\* number, which is the shortest decimal text that identifies an f64
JsonNumber(x) == [json |-> "number", number |-> x]
JsonNull == [json |-> "null", number |-> F64(0)]

\* serde_json's serialize_f64: a finite number is written as its shortest
\* decimal text, a NaN or an infinity is written as null
F64ToJson(x) ==
    IF x.class \in {"finite", "finite17"} THEN JsonNumber(x) ELSE JsonNull

\* the f64 next to x
NextFloat(x) == [x EXCEPT !.value = @ + 1]

\* serde_json's deserialize_f64: null is a type error; a short decimal text
\* is read as the number it stands for; a text of 17 significant digits is
\* read as that number when serde_json is built with float_roundtrip and as
\* a neighbour of it by the default, best-effort conversion
JsonToF64(j) ==
    IF j.json # "number"
    THEN Err("SerializationError", "invalid type: null, expected f64")
    ELSE IF j.number.class = "finite17" /\ ~float_roundtrip
         THEN Ok(NextFloat(j.number))
         ELSE Ok(j.number)

\* a Serialize that leaves the overlay_visible field at its default
ConfigToValueNoFlag(cfg) ==
    [window_position |-> <<F64ToJson(cfg.window_position[1]),
                           F64ToJson(cfg.window_position[2])>>,
     overlay_visible |-> TRUE,
     poll_interval_secs |-> cfg.poll_interval_secs]

\* #[derive(Serialize)] of AppConfig: the JSON object of a configuration
ConfigToValue(cfg) ==
    [window_position |-> <<F64ToJson(cfg.window_position[1]),
                           F64ToJson(cfg.window_position[2])>>,
     overlay_visible |-> cfg.overlay_visible,
     poll_interval_secs |-> cfg.poll_interval_secs]

\* #[derive(Deserialize)] of AppConfig: the configuration of a JSON object
ConfigFromValue(v) ==
    LET x == JsonToF64(v.window_position[1])
        y == JsonToF64(v.window_position[2])
    IN  IF ~x.ok THEN x
        ELSE IF ~y.ok THEN y
        ELSE Ok([window_position |-> <<x.val, y.val>>,
                 overlay_visible |-> v.overlay_visible,
                 poll_interval_secs |-> v.poll_interval_secs])

\* serde_json::to_string(&config)
ConfigToJson(cfg) == ToJson(ConfigToValue(cfg))

\* serde_json::from_str::<AppConfig>
ConfigFromJson(json) ==
    LET parsed == FromJson(json) IN
    IF parsed.ok THEN ConfigFromValue(parsed.val) ELSE parsed

\* the configurations a config file can hold
Configs == {DefaultConfig, [DefaultConfig EXCEPT !.overlay_visible = FALSE]}

\* what can be at the config file's path: nothing, text that is not the JSON
\* of an AppConfig, or a saved AppConfig
ConfigFiles ==
    {None, Some(Unreadable)} \cup {Some(ConfigToJson(cfg)) : cfg \in Configs}

\* what the file system does for AppConfig::load: it works, HOME is not set,
\* or the file is there and cannot be read
FsStates == {"ok", "no_home", "read_error"}

\* AppConfig::load
ConfigLoad(file, fs) ==
    IF fs = "no_home"
    THEN Err("ConfigError", "HOME environment variable not set")
    ELSE IF file = None
         THEN Ok(DefaultConfig)
         ELSE IF fs = "read_error"
              THEN Err("ConfigError", "Failed to read config file")
              ELSE LET parsed == ConfigFromJson(file[1]) IN
                   IF parsed.ok THEN Ok(parsed.val) ELSE Ok(DefaultConfig)

\* AppConfig::save; fs_ok: the directory and the file can be written
ConfigSave(cfg, file, fs_ok) ==
    IF fs_ok
    THEN [file |-> Some(ConfigToJson(cfg)), ret |-> Ok(<<>>)]
    ELSE [file |-> file,
          ret |-> Err("ConfigError", "Failed to write config file")]

\* what App::new finds besides the configuration: everything it needs, no
\* Spotify credentials in the environment, or no main screen for the overlay
Surroundings == {"ok", "no_credentials", "no_screen"}

\* App::new after the configuration is loaded: SpotifyClient::new,
\* LyricsFetcher::new, UIManager::new and MenuBar::new
NewComponents(around) ==
    IF around = "no_credentials"
    THEN Err("AuthenticationFailed",
             "SPOTIFY_CLIENT_ID environment variable not set")
    ELSE IF around = "no_screen"
         THEN Err("UIError", "Failed to get main screen")
         ELSE Ok(<<>>)

\* main: App::new()?
AppNew(fs, around) ==
    /\ run_pc = "start"
    /\ LET loaded == ConfigLoad(config_file, fs)
           parts == NewComponents(around)
       IN  IF ~loaded.ok \/ ~parts.ok
           THEN /\ app_ret' = Some(IF ~loaded.ok THEN loaded ELSE parts)
                /\ run_pc' = "aborted"
                /\ UNCHANGED <<config, window_visible, forward_pc>>
           ELSE /\ config' = loaded.val
                /\ window_visible' = loaded.val.overlay_visible
                /\ forward_pc' = "running"
                /\ run_pc' = "created"
                /\ UNCHANGED app_ret
    /\ UNCHANGED <<channel, rx_closed, overlay_text, handling, pending>>
    /\ UNCHANGED <<config_file, menu_visible, menu_auth, menu_queue, event,
                   sends, tags, handled, ui_updates, vis_log, deserialized, float_roundtrip,
                   pollers_started, browser_opens, unshown,
                   last_lookup, cache_origin>>
    /\ UNCHANGED <<cacheVars, fetchVars, pollVars, authVars, sessionVars>>

\* an initialize that starts polling whether or not a token is there
StartsPollingAlways(authenticated) == TRUE

\* App::initialize: start_polling is called when the client's initialize
\* returned true
StartsPolling(authenticated) == authenticated

\* main: app.initialize().await?
AppInitialize(load_ok, outcome, kc_ok) ==
    /\ run_pc = "created"
    /\ LET r == Initialize(token, keychain, now, load_ok, outcome, kc_ok) IN
       /\ token' = r.token
       /\ keychain' = r.keychain
       /\ IF ~r.ret.ok
          THEN /\ app_ret' = Some(r.ret)
               /\ run_pc' = "aborted"
               /\ UNCHANGED <<menu_auth, menu_visible, poll_pc, vis_log,
                              pollers_started>>
          ELSE /\ menu_auth' = r.ret.val
               /\ IF StartsPolling(r.ret.val)
                  THEN /\ poll_pc' = "tick"
                       /\ pollers_started' = pollers_started + 1
                  ELSE UNCHANGED <<poll_pc, pollers_started>>
               /\ menu_visible' = config.overlay_visible
               /\ vis_log' = <<window_visible>>
               /\ run_pc' = "recv"
               /\ UNCHANGED app_ret
    /\ UNCHANGED <<channel, rx_closed, overlay_text, handling, pending>>
    /\ UNCHANGED <<config, config_file, window_visible, menu_queue, event,
                   sends, tags, handled, ui_updates, forward_pc, deserialized,
                   float_roundtrip, browser_opens, unshown, last_lookup, cache_origin>>
    /\ UNCHANGED <<current_track, attempt, last_error, poll_result, retryLog,
                   pollLog>>
    /\ UNCHANGED <<now, valid_ret, last_call>>
    /\ UNCHANGED <<cacheVars, fetchVars>>

\* the tracks the poller reports to the application
AppTracks == {TrackA, TrackB}

\* what a poll cycle can end with, once its retries are over
CycleResults ==
    {Ok(None)} \cup {Ok(Some(track)) : track \in AppTracks} \cup
    {RetryExhausted(Some("connection timed out"))}

\* a receiver that takes the newest message of the queue
RecvNewest(q) == Len(q)

\* mpsc::Receiver::recv: the position in the queue of the message it returns
RecvIndex(q) == 1

\* the queue without its i-th message
RemoveAt(q, i) == SubSeq(q, 1, i - 1) \o SubSeq(q, i + 1, Len(q))

\* a channel that takes every send at once
AlwaysRoom == TRUE

\* mpsc::channel(100): a send completes only while fewer events are queued
\* than the channel's capacity
ChannelHasRoom == Len(channel) < ChannelCap

\* a channel that puts a new event in front of the queued ones
EnqueueInFront(e) ==
    /\ channel' = <<e>> \o channel
    /\ sends' = sends + 1
    /\ tags' = <<sends + 1>> \o tags

\* a send on the main channel completes: the event is queued
Enqueue(e) ==
    /\ channel' = Append(channel, e)
    /\ sends' = sends + 1
    /\ tags' = Append(tags, sends + 1)

\* the process is running: App::new succeeded and main has not returned
AppAlive == run_pc \notin {"start", "aborted"}

\* the user picks a menu item: the delegate sends on the unbounded channel
MenuClick(e) ==
    /\ AppAlive
    /\ ~rx_closed
    /\ sends + Len(menu_queue) < MaxEvents
    /\ menu_queue' = Append(menu_queue, e)
    /\ UNCHANGED <<config, config_file, window_visible, menu_visible, menu_auth,
                   event, app_ret, sends, tags, handled, auxVars>>
    /\ UNCHANGED <<cacheVars, fetchVars, loopVars, pollVars, authVars, sessionVars>>

\* the forwarding task of App::new: it passes a menu event on to the main
\* channel once there is room; when the send fails because the receiver is
\* gone, or when the menu's sender is gone and nothing is left, its loop ends
\* and the menu channel's receiver is dropped with what it holds
Forward ==
    /\ forward_pc = "running"
    /\ IF rx_closed
       THEN /\ forward_pc' = "stopped"
            /\ menu_queue' = <<>>
            /\ UNCHANGED <<channel, sends, tags>>
       ELSE /\ menu_queue # <<>>
            /\ ChannelHasRoom
            /\ Enqueue(Head(menu_queue))
            /\ menu_queue' = Tail(menu_queue)
            /\ UNCHANGED forward_pc
    /\ UNCHANGED <<rx_closed, overlay_text, run_pc, handling, pending>>
    /\ UNCHANGED <<config, config_file, window_visible, menu_visible, menu_auth,
                   event, app_ret, handled, ui_updates, vis_log, deserialized, float_roundtrip,
                   pollers_started, browser_opens, unshown,
                   last_lookup, cache_origin>>
    /\ UNCHANGED <<cacheVars, fetchVars, pollVars, authVars, sessionVars>>

\* a polling loop that goes on after a send failed
PollSendIgnoringClose(e) ==
    IF rx_closed
    THEN UNCHANGED <<poll_pc, channel, sends, tags>>
    ELSE /\ ChannelHasRoom
         /\ Enqueue(e)
         /\ UNCHANGED poll_pc

\* the polling loop's send of e: it completes once the channel has room, or
\* fails when the receiver is gone, and then the loop breaks
PollSend(e) ==
    IF rx_closed
    THEN /\ poll_pc' = "terminated"
         /\ UNCHANGED <<channel, sends, tags>>
    ELSE /\ ChannelHasRoom
         /\ Enqueue(e)
         /\ UNCHANGED poll_pc

\* one cycle of the polling task, from the tick to the send of its event
PollOnce(result) ==
    /\ poll_pc = "tick"
    /\ IF result.ok
       THEN /\ current_track' =
                   IF HasChanged(current_track, result.val)
                   THEN StoreTrack(current_track, result.val)
                   ELSE current_track
            /\ IF HasChanged(current_track, result.val) /\ result.val # None
               THEN PollSend(EventFor(result))
               ELSE UNCHANGED <<channel, sends, tags, poll_pc>>
       ELSE /\ PollSend(EventFor(result))
            /\ UNCHANGED current_track
    /\ UNCHANGED <<attempt, last_error, poll_result, retryLog, pollLog>>
    /\ UNCHANGED <<rx_closed, overlay_text, run_pc, handling, pending>>
    /\ UNCHANGED <<config, config_file, window_visible, menu_visible, menu_auth,
                   menu_queue, event, app_ret, handled, auxVars>>
    /\ UNCHANGED <<cacheVars, fetchVars, authVars, sessionVars>>

\* the poll cycles of a behaviour, as far as the model follows them
PollCycle(result) ==
    /\ sends + Len(menu_queue) < MaxEvents
    /\ PollOnce(result)

\* App::run: recv returns the next event and the match selects its handler
RunRecv ==
    /\ run_pc = "recv"
    /\ channel # <<>>
    /\ LET i == RecvIndex(channel) IN
       /\ event' = Some(channel[i])
       /\ channel' = RemoveAt(channel, i)
       /\ tags' = RemoveAt(tags, i)
       /\ handled' = Append(handled, tags[i])
    /\ run_pc' = "handle"
    /\ UNCHANGED <<rx_closed, overlay_text, handling, pending>>
    /\ UNCHANGED <<config, config_file, window_visible, menu_visible, menu_auth,
                   menu_queue, app_ret, sends, auxVars>>
    /\ UNCHANGED <<cacheVars, fetchVars, pollVars, authVars, sessionVars>>

\* the handler of kind is running
Handling(kind) ==
    /\ run_pc = "handle"
    /\ event # None
    /\ event[1].kind = kind

\* a handler's result meets the `?` of App::run: Ok goes round the loop, Err
\* leaves run
HandlerReturns(ret) ==
    /\ event' = None
    /\ IF ret.ok
       THEN /\ run_pc' = "recv"
            /\ UNCHANGED app_ret
       ELSE /\ run_pc' = "failed"
            /\ app_ret' = Some(ret)

\* what the entries of the cache were fetched for, after fetch_lyrics for
\* track returned r: a remote lookup stores its result under the track's id,
\* a hit stores nothing, and an evicted key is forgotten
OriginAfter(origin, track, r) ==
    [k \in DOMAIN r.cache.entries |->
        IF k = track.id /\ r.remote
        THEN [artist |-> FirstArtist(track), title |-> track.name]
        ELSE origin[k]]

\* App::handle_track_changed: the lookup, then the send of LyricsRetrieved,
\* which suspends for good when the channel is full
HandleTrackChanged(resp) ==
    /\ Handling("TrackChanged")
    /\ LET track == event[1].track[1]
           r == FetchLyrics(cache, track.id, FirstArtist(track), track.name,
                            resp, clock + 1)
       IN  /\ cache' = r.cache
           /\ clock' = clock + 1
           /\ IF ~r.ret.ok
              THEN /\ HandlerReturns(r.ret)
                   /\ UNCHANGED <<channel, sends, tags, pending, unshown,
                                  last_lookup, cache_origin>>
              ELSE /\ unshown' = Append(unshown, r.ret.val)
                   /\ last_lookup' = Some([track |-> track,
                                           lyrics |-> r.ret.val])
                   /\ cache_origin' = OriginAfter(cache_origin, track, r)
                   /\ IF ChannelHasRoom
                      THEN /\ Enqueue(LyricsRetrieved(r.ret.val))
                           /\ HandlerReturns(Ok(<<>>))
                           /\ UNCHANGED pending
                      ELSE /\ pending' = Some(LyricsRetrieved(r.ret.val))
                           /\ run_pc' = "sending"
                           /\ UNCHANGED <<channel, sends, tags, event,
                                          app_ret>>
    /\ UNCHANGED <<lastTouch, lastOp, rx_closed, overlay_text, handling>>
    /\ UNCHANGED <<config, config_file, window_visible, menu_visible, menu_auth,
                   menu_queue, handled>>
    /\ UNCHANGED <<ui_updates, vis_log, forward_pc, deserialized,
                   float_roundtrip, pollers_started, browser_opens>>
    /\ UNCHANGED <<fetchVars, pollVars, authVars, sessionVars>>

\* App::handle_lyrics_retrieved
HandleLyricsRetrieved ==
    /\ Handling("LyricsRetrieved")
    /\ overlay_text' = LyricsText(event[1].lyrics)
    /\ ui_updates' = ui_updates + 1
    /\ unshown' = IF unshown # <<>> THEN Tail(unshown) ELSE unshown
    /\ HandlerReturns(Ok(<<>>))
    /\ UNCHANGED <<channel, rx_closed, handling, pending>>
    /\ UNCHANGED <<config, config_file, window_visible, menu_visible, menu_auth,
                   menu_queue, sends, tags, handled, vis_log, forward_pc,
                   deserialized, float_roundtrip, pollers_started,
                   browser_opens, last_lookup, cache_origin>>
    /\ UNCHANGED <<cacheVars, fetchVars, pollVars, authVars, sessionVars>>

\* a toggle that only ever shows the overlay
ToggleShowsOnly(is_visible) == TRUE

\* handle_toggle_overlay: hide() when overlay.is_visible(), show() when not
AfterToggle(is_visible) == ~is_visible

\* App::handle_toggle_overlay: OverlayWindow::hide or show, which saves the
\* window's copy of the configuration and ignores the result, then
\* MenuBar::update_visibility_state
HandleToggleOverlay(fs_ok) ==
    /\ Handling("ToggleOverlay")
    /\ window_visible' = AfterToggle(window_visible)
    /\ config_file' =
           ConfigSave([config EXCEPT
                           !.overlay_visible = AfterToggle(window_visible)],
                      config_file, fs_ok).file
    /\ menu_visible' = AfterToggle(window_visible)
    /\ vis_log' = Append(vis_log, AfterToggle(window_visible))
    /\ HandlerReturns(Ok(<<>>))
    /\ UNCHANGED <<channel, rx_closed, overlay_text, handling, pending>>
    /\ UNCHANGED <<config, menu_auth, menu_queue, sends, tags, handled,
                   ui_updates, forward_pc, deserialized, float_roundtrip,
                   pollers_started, browser_opens, unshown,
                   last_lookup, cache_origin>>
    /\ UNCHANGED <<cacheVars, fetchVars, pollVars, authVars, sessionVars>>

\* SpotifyClient::get_auth_url; url_ok: rspotify builds the URL
GetAuthUrl(url_ok) ==
    IF url_ok
    THEN Ok("https://accounts.spotify.com/authorize")
    ELSE Err("AuthenticationFailed", "Failed to generate auth URL")

\* App::handle_authenticate: the URL is handed to open_url, whose failure to
\* open the browser is only logged
HandleAuthenticate(url_ok) ==
    /\ Handling("Authenticate")
    /\ LET auth_url == GetAuthUrl(url_ok) IN
       /\ HandlerReturns(IF auth_url.ok THEN Ok(<<>>) ELSE auth_url)
       /\ browser_opens' = IF auth_url.ok THEN browser_opens + 1
                           ELSE browser_opens
    /\ UNCHANGED <<channel, rx_closed, overlay_text, handling, pending>>
    /\ UNCHANGED <<config, config_file, window_visible, menu_visible, menu_auth,
                   menu_queue, sends, tags, handled>>
    /\ UNCHANGED <<ui_updates, vis_log, forward_pc, deserialized,
                   float_roundtrip, pollers_started, unshown, last_lookup, cache_origin>>
    /\ UNCHANGED <<cacheVars, fetchVars, pollVars, authVars, sessionVars>>

\* a text for the overlay that leaves the error's message out
ErrorTextBare(error) == <<"Unable to connect to Spotify">>

\* handle_spotify_error: format!("Unable to connect to Spotify\n\n{}", error)
ErrorText(error) == <<"Unable to connect to Spotify\n\n">> \o error

\* App::handle_spotify_error
HandleSpotifyError ==
    /\ Handling("SpotifyError")
    /\ overlay_text' = ErrorText(event[1].message)
    /\ ui_updates' = ui_updates + 1
    /\ HandlerReturns(Ok(<<>>))
    /\ UNCHANGED <<channel, rx_closed, handling, pending>>
    /\ UNCHANGED <<config, config_file, window_visible, menu_visible, menu_auth,
                   menu_queue, sends, tags, handled, vis_log, forward_pc,
                   deserialized, float_roundtrip,
                   pollers_started, browser_opens, unshown,
                   last_lookup, cache_origin>>
    /\ UNCHANGED <<cacheVars, fetchVars, pollVars, authVars, sessionVars>>

\* a loop that goes on receiving after Quit
LoopGoesOn(ret) == "recv"

\* App::run after shutdown() returned ret: `?` leaves run on Err, break
\* leaves the loop on Ok
LoopAfterQuit(ret) == IF ret.ok THEN "exited" ELSE "failed"

\* the Quit arm of App::run: App::shutdown saves App.config
HandleQuit(fs_ok) ==
    /\ Handling("Quit")
    /\ LET saved == ConfigSave(config, config_file, fs_ok) IN
       /\ config_file' = saved.file
       /\ run_pc' = LoopAfterQuit(saved.ret)
       /\ app_ret' = Some(saved.ret)
    /\ event' = None
    /\ UNCHANGED <<channel, rx_closed, overlay_text, handling, pending>>
    /\ UNCHANGED <<config, window_visible, menu_visible, menu_auth,
                   menu_queue, sends, tags, handled, auxVars>>
    /\ UNCHANGED <<cacheVars, fetchVars, pollVars, authVars, sessionVars>>

\* main returns and `app` is dropped: the receiver of the main channel goes
\* with the events it still holds, and so do the menu and its sender; the
\* spawned tasks are still there until the runtime is shut down
AppDropped ==
    /\ \/ run_pc \in {"exited", "failed"}
       \/ run_pc = "aborted" /\ forward_pc = "running"
    /\ ~rx_closed
    /\ rx_closed' = TRUE
    /\ channel' = <<>>
    /\ UNCHANGED <<overlay_text, run_pc, handling, pending>>
    /\ UNCHANGED <<cacheVars, fetchVars, pollVars, authVars, sessionVars,
                   appVars, auxVars>>

\* what the keychain holds when the application starts: nothing, an entry
\* that is not a token, an expired token or a token valid throughout
AppKeychains ==
    {None, Some(Unreadable)} \cup
    {Some(Serialized(tok)) : tok \in
        {t \in SessionTokens :
            t.expires_at \in {Some(RefreshBuffer),
                              Some(RefreshBuffer + MaxNow + MaxSlack)}}}

\* the process starts: nothing is constructed yet; the config file and the
\* keychain hold what earlier runs or the user left there
InitApp ==
    /\ CacheInit /\ cache.max_size = MaxCapacity
    /\ FetchInit /\ PollIdle
    /\ channel = <<>> /\ rx_closed = FALSE
    /\ overlay_text = <<"Waiting for lyrics...">>
    /\ run_pc = "start"
    /\ handling = None /\ pending = None
    /\ token = None /\ now = 0 /\ valid_ret = None
    /\ keychain \in AppKeychains
    /\ last_call = NoCall
    /\ config = DefaultConfig
    /\ config_file \in ConfigFiles
    /\ window_visible = FALSE /\ menu_visible = FALSE /\ menu_auth = FALSE
    /\ menu_queue = <<>> /\ event = None /\ app_ret = None
    /\ sends = 0 /\ tags = <<>> /\ handled = <<>>
    /\ ui_updates = 0 /\ vis_log = <<>>
    /\ forward_pc = "idle" /\ deserialized = None
    /\ float_roundtrip = FALSE
    /\ pollers_started = 0 /\ browser_opens = 0
    /\ unshown = <<>> /\ last_lookup = None
    /\ cache_origin = [k \in {} |-> None]

NextApp ==
    \/ \E fs \in FsStates, around \in Surroundings : AppNew(fs, around)
    \/ \E load_ok \in BOOLEAN, outcome \in ExchangeOutcomes, kc_ok \in BOOLEAN :
            AppInitialize(load_ok, outcome, kc_ok)
    \/ \E e \in {ToggleOverlay, Authenticate, Quit} : MenuClick(e)
    \/ Forward
    \/ \E result \in CycleResults : PollCycle(result)
    \/ RunRecv
    \/ \E resp \in LyricsResponses : HandleTrackChanged(resp)
    \/ HandleLyricsRetrieved
    \/ \E fs_ok \in BOOLEAN : HandleToggleOverlay(fs_ok)
    \/ \E url_ok \in BOOLEAN : HandleAuthenticate(url_ok)
    \/ HandleSpotifyError
    \/ \E fs_ok \in BOOLEAN : HandleQuit(fs_ok)
    \/ AppDropped

SpecApp == InitApp /\ [][NextApp]_vars

\* C17: startup is never aborted by a configuration or token-store failure:
\* main does not return a ConfigError, a KeyringError or a SerializationError
\* from App::new or App::initialize.
C17_StartupNeverAborted ==
    run_pc = "aborted" =>
        app_ret[1].val[1] \notin
            {"ConfigError", "KeyringError", "SerializationError"}

\* the numbers in s are from + 1, from + 2, ... in this order
InSendOrder(s, from) == \A i \in 1..Len(s) : s[i] = from + i

\* C18: events are handled one at a time in the order they were sent on the
\* main channel: the events handled so far are the first ones sent, in send
\* order, each once; the queued ones are the next in send order; a handler
\* begins only when no handler is running, and the event of a running
\* handler is not replaced.
C18_HandledInSendOrder ==
    [][/\ InSendOrder(handled', 0)
       /\ InSendOrder(tags', Len(handled'))
       /\ Len(handled') + Len(tags') = sends'
       /\ handled' # handled =>
              /\ run_pc = "recv" /\ event = None
              /\ event' # None
              /\ handled' = Append(handled, Len(handled) + 1)
       /\ (event # None /\ event' # None) =>
              (event' = event /\ handled' = handled)]_vars

\* C18 witness: the third event sent, a LyricsRetrieved, is being handled
\* after the first two, while a fourth waits in the queue.
C18_Witness ==
    /\ handled = <<1, 2, 3>>
    /\ Handling("LyricsRetrieved")
    /\ tags = <<4>>

\* the step in which the handling of Quit ends
QuitHandled == Handling("Quit") /\ event' = None

\* the loop of App::run was left
LoopLeft == run_pc \in {"exited", "failed"}

\* C19 as stated: handling Quit persists the configuration and exits the
\* loop, and once the loop is left no event is handled.
C19_QuitPersistsAndExits ==
    [][/\ QuitHandled =>
              /\ run_pc' = "exited"
              /\ config_file' = Some(ConfigToJson(config))
       /\ LoopLeft =>
              /\ handled' = handled
              /\ run_pc' = run_pc
              /\ event' = event]_vars

\* C19 amended: handling Quit asks for App.config to be saved and leaves the
\* loop either way: by break with the configuration on disk when the save
\* succeeded, by the save's ConfigError with the file untouched when it
\* failed. Once the loop is left no event is handled, whatever is queued or
\* sent.
C19_QuitSavesIfItCanAndExits ==
    [][/\ QuitHandled =>
              /\ LoopLeft'
              /\ run_pc' = "exited" =>
                     /\ config_file' = Some(ConfigToJson(config))
                     /\ app_ret' = Some(Ok(<<>>))
              /\ run_pc' = "failed" =>
                     /\ config_file' = config_file
                     /\ ~app_ret'[1].ok
                     /\ app_ret'[1].val[1] = "ConfigError"
       /\ LoopLeft =>
              /\ handled' = handled
              /\ run_pc' = run_pc
              /\ event' = event
              /\ overlay_text' = overlay_text]_vars

\* C19 witness: Quit was handled second, the configuration is on disk, the
\* loop is left, and an event sent after Quit stays in the queue.
C19_Witness ==
    /\ run_pc = "exited"
    /\ app_ret = Some(Ok(<<>>))
    /\ config_file = Some(ConfigToJson(config))
    /\ handled = <<1, 2>>
    /\ tags = <<3>>

\* C20: the loop is left only by the handling of Quit (the channel is never
\* closed while App holds a sender): no other handler makes it exit.
C20_OnlyQuitLeavesLoop ==
    [][(~LoopLeft /\ LoopLeft') => Handling("Quit")]_vars

\* C21: handling SpotifyError(msg) puts a text that ends with msg on the
\* overlay by one update_lyrics call and is not fatal: the handler returns
\* Ok, main does not return, and the loop is back at recv for the events
\* that follow.
C21_ServiceErrorShownNonFatal ==
    [][(Handling("SpotifyError") /\ event' = None) =>
          /\ event[1].message # <<>>
          /\ IsSuffix(event[1].message, overlay_text')
          /\ Len(overlay_text') > Len(event[1].message)
          /\ ui_updates' = ui_updates + 1
          /\ run_pc' = "recv"
          /\ app_ret' = app_ret /\ app_ret = None]_vars

\* C21 witness: the first event handled was a SpotifyError whose message ends
\* with the last attempt's error; its text is on the overlay while the second
\* event, a ToggleOverlay, is being handled.
C21_Witness ==
    /\ handled = <<1, 2>>
    /\ Handling("ToggleOverlay")
    /\ ui_updates = 1
    /\ Len(overlay_text) = 6
    /\ overlay_text[6] = "connection timed out"

\* C22: every LyricsRetrieved handled makes one update_lyrics call: with the
\* text for Some(text), with the "not available" message for None, which is
\* neither dropped nor shown as an empty text; the loop goes on.
C22_LyricsAlwaysShown ==
    [][(Handling("LyricsRetrieved") /\ event' = None) =>
          /\ ui_updates' = ui_updates + 1
          /\ event[1].lyrics # None => overlay_text' = <<event[1].lyrics[1]>>
          /\ event[1].lyrics = None =>
                 overlay_text' = <<"Lyrics not available for this track">>
          /\ run_pc' = "recv"]_vars

\* C22 witness: a LyricsRetrieved(None) was handled after lyrics were shown
\* for an earlier track, and the overlay shows the "not available" message.
C22_Witness ==
    /\ ui_updates = 2
    /\ overlay_text = <<"Lyrics not available for this track">>
    /\ run_pc = "recv"
    /\ \E id \in DOMAIN cache.entries : cache.entries[id].lyrics # None

\* C23: handling ToggleOverlay flips the window's visibility and leaves the
\* menu bar's visibility state equal to it; from the end of startup on the
\* two are equal whatever was handled, and the visibilities after startup
\* and after each toggle alternate, so that two toggles restore the first.
C23_ToggleFlipsAndIndicatorAgrees ==
    [][/\ (Handling("ToggleOverlay") /\ event' = None) =>
              /\ window_visible' = ~window_visible
              /\ menu_visible' = window_visible'
              /\ vis_log' = Append(vis_log, window_visible')
              /\ run_pc' = "recv"
       /\ vis_log' # <<>> =>
              /\ menu_visible' = window_visible'
              /\ window_visible' = vis_log'[Len(vis_log')]
       /\ \A i \in 1..(Len(vis_log') - 1) : vis_log'[i + 1] = ~vis_log'[i]
       /\ \A i \in 1..(Len(vis_log') - 2) : vis_log'[i + 2] = vis_log'[i]]_vars

\* C23 witness: the overlay started hidden from a saved configuration, was
\* shown by one toggle and hidden again by the next, and the menu bar says
\* hidden.
C23_Witness ==
    /\ vis_log = <<FALSE, TRUE, FALSE>>
    /\ ~window_visible
    /\ ~menu_visible
    /\ run_pc = "recv"

\* C24: every TrackChanged handled is answered by one LyricsRetrieved
\* entering the main channel: the handler ends with that event queued after
\* the ones already there and the loop back at recv. A handler left
\* suspended in its send would stay so, as only the loop it suspends takes
\* events off the channel.
C24_TrackChangedAnswered ==
    [][(Handling("TrackChanged") /\ run_pc' # "handle") =>
          /\ run_pc' = "recv"
          /\ sends' = sends + 1
          /\ Len(channel') = Len(channel) + 1
          /\ SubSeq(channel', 1, Len(channel)) = channel
          /\ channel'[Len(channel')].kind = "LyricsRetrieved"]_vars

\* C25: the lookup started for a TrackChanged runs apart from the loop:
\* while it is in flight, an event waiting on the main channel (a
\* ToggleOverlay, a Quit, a newer TrackChanged) can be received and handled.
C25_DispatcherFreeDuringLookup ==
    (Handling("TrackChanged") /\ channel # <<>>) => ENABLED RunRecv

\* C26: the main channel never holds more than its capacity. A send
\* completes only while there is room, and room is made only by the loop
\* receiving (or by the receiver going away at the end); while the channel is
\* full no send completes, the forwarder's event stays in the menu queue, the
\* dispatcher's own LyricsRetrieved stays with its suspended send, and every
\* event whose send completed is either still queued or was received.
C26_BoundedChannelBackpressure ==
    [][/\ Len(channel') <= ChannelCap
       /\ sends' # sends =>
              /\ Len(channel) < ChannelCap
              /\ sends' = sends + 1
              /\ Len(channel') = Len(channel) + 1
              /\ SubSeq(channel', 1, Len(channel)) = channel
       /\ Len(channel) = ChannelCap =>
              /\ sends' = sends
              /\ ~rx_closed' => Len(menu_queue') >= Len(menu_queue)
              /\ (Handling("TrackChanged") /\ run_pc' # "handle") =>
                     /\ run_pc' = "sending"
                     /\ pending' # None
                     /\ pending'[1].kind = "LyricsRetrieved"
       /\ Len(channel') < Len(channel) =>
              \/ run_pc = "recv" /\ run_pc' = "handle"
                     /\ Len(channel') = Len(channel) - 1
              \/ ~rx_closed /\ rx_closed'
       /\ (~rx_closed /\ Len(menu_queue') < Len(menu_queue)) =>
              /\ menu_queue' = Tail(menu_queue)
              /\ channel' = Append(channel, Head(menu_queue))
       /\ ~rx_closed' => Len(handled') + Len(channel') = sends'
       /\ run_pc = "sending" => (run_pc' = "sending" /\ pending' = pending)]_vars

\* C26 witness: the channel is full, the forwarding task holds a menu event
\* it cannot send yet, and the loop is about to receive.
C26_Witness ==
    /\ Len(channel) = ChannelCap
    /\ menu_queue # <<>>
    /\ forward_pc = "running"
    /\ ~rx_closed
    /\ run_pc = "recv"

\* some poll cycle can be run
PollCycleAny == \E result \in CycleResults : PollCycle(result)

\* C27: a send on the main channel fails only when the receiver is gone, and
\* the producer then stops without ending the process: the polling loop
\* terminates on the first result it would have to report and runs no
\* further cycle; the forwarding task stops on the first menu event it would
\* pass on and takes no further one; neither changes what main returns.
C27_FailedSendStopsProducer ==
    [][/\ poll_pc' # poll_pc /\ poll_pc = "tick" =>
              /\ rx_closed
              /\ poll_pc' = "terminated"
              /\ sends' = sends /\ channel' = channel
              /\ app_ret' = app_ret /\ run_pc' = run_pc
       /\ (rx_closed /\ poll_pc = "tick" /\ current_track' # current_track
               /\ current_track' # None) => poll_pc' = "terminated"
       /\ poll_pc = "terminated" =>
              /\ poll_pc' = "terminated"
              /\ current_track' = current_track
              /\ ~ENABLED PollCycleAny
       /\ forward_pc' # forward_pc /\ forward_pc = "running" =>
              /\ rx_closed
              /\ forward_pc' = "stopped"
              /\ sends' = sends /\ channel' = channel
              /\ app_ret' = app_ret /\ run_pc' = run_pc
       /\ (rx_closed /\ forward_pc = "running" /\ menu_queue' # menu_queue) =>
              forward_pc' = "stopped"
       /\ forward_pc = "stopped" =>
              /\ forward_pc' = "stopped"
              /\ menu_queue' = menu_queue
              /\ ~ENABLED Forward
       /\ rx_closed => sends' = sends]_vars

\* C27 witness: main has returned after a Quit, the polling loop ended on a
\* send that failed while a track is known, and the forwarding task stopped.
C27_Witness ==
    /\ rx_closed
    /\ run_pc = "exited"
    /\ poll_pc = "terminated"
    /\ forward_pc = "stopped"
    /\ current_track # None

\* C28: the polling task holds no guard while it is suspended: the guard on
\* current_track is released before the task waits for a tick, a query, a
\* sleep or room on the main channel.
C28_NoGuardAcrossSuspension == CurrentTrackGuardHeld => ~PollerSuspended

\* C29: whether a successful poll reports a change depends only on the
\* track's id: a poll that finds a track while a track is known sends
\* TrackChanged exactly when the two ids differ, whatever the names, artists
\* and durations are.
C29_ChangeDependsOnIdOnly ==
    \A i \in 1..Len(pollLog) :
        (pollLog[i].result.ok /\ pollLog[i].result.val # None
             /\ PrevKnown(i) # None) =>
            LET new == pollLog[i].result.val[1]
                known == PrevKnown(i)[1]
            IN  pollLog[i].events =
                    IF new.id # known.id THEN <<TrackChanged(new)>> ELSE <<>>

(***************************************************************************)
(* AppConfig through JSON and back (tests::test_config_serialization).     *)
(***************************************************************************)
\* the coordinates a window position is made of
F64Values ==
    {F64(100), F64(200), F64Long(3), F64NaN, F64Infinity, F64NegInfinity}

\* the values of AppConfig
AppConfigs ==
    [window_position : F64Values \X F64Values, overlay_visible : BOOLEAN,
     poll_interval_secs : {5, 10}]

\* let json = serde_json::to_string(&config).unwrap(), kept where the
\* configuration's JSON lives
SerializeConfig ==
    /\ config_file' = Some(ConfigToJson(config))
    /\ UNCHANGED <<config, window_visible, menu_visible, menu_auth, menu_queue,
                   event, app_ret, sends, tags, handled, auxVars>>
    /\ UNCHANGED <<cacheVars, fetchVars, loopVars, pollVars, authVars, sessionVars>>

\* serde_json::from_str::<AppConfig>(&json): the text read and the Result
DeserializeConfig ==
    /\ config_file # None
    /\ deserialized' = Some([json |-> config_file[1],
                             ret |-> ConfigFromJson(config_file[1])])
    /\ UNCHANGED <<ui_updates, vis_log, forward_pc, float_roundtrip,
                   pollers_started, browser_opens, unshown,
                   last_lookup, cache_origin>>
    /\ UNCHANGED <<cacheVars, fetchVars, loopVars, pollVars, authVars,
                   sessionVars, appVars>>

\* some AppConfig value is at hand; the text to parse is absent or is not
\* the JSON of an AppConfig
InitConfig ==
    /\ CacheInit /\ cache.max_size = MaxCapacity
    /\ FetchInit /\ PollIdle /\ AuthIdle
    /\ channel = <<>> /\ rx_closed = FALSE
    /\ overlay_text = <<"Waiting for lyrics...">>
    /\ run_pc = "start"
    /\ handling = None /\ pending = None
    /\ config \in AppConfigs
    /\ config_file \in {None, Some(Unreadable)}
    /\ window_visible = FALSE /\ menu_visible = FALSE /\ menu_auth = FALSE
    /\ menu_queue = <<>> /\ event = None /\ app_ret = None
    /\ sends = 0 /\ tags = <<>> /\ handled = <<>>
    /\ ui_updates = 0 /\ vis_log = <<>>
    /\ forward_pc = "idle" /\ deserialized = None
    /\ float_roundtrip \in BOOLEAN
    /\ pollers_started = 0 /\ browser_opens = 0
    /\ unshown = <<>> /\ last_lookup = None
    /\ cache_origin = [k \in {} |-> None]

NextConfig == SerializeConfig \/ DeserializeConfig

SpecConfig == InitConfig /\ [][NextConfig]_vars

\* the text last parsed is the serialization of the configuration at hand
RoundTripDone ==
    /\ deserialized # None
    /\ deserialized[1].json = ConfigToJson(config)

\* the assertions of test_config_serialization: the three fields are equal
SameConfig(a, b) ==
    /\ F64Eq(a.window_position[1], b.window_position[1])
    /\ F64Eq(a.window_position[2], b.window_position[2])
    /\ a.overlay_visible = b.overlay_visible
    /\ a.poll_interval_secs = b.poll_interval_secs

\* x is a finite number
IsFinite(x) == x.class \in {"finite", "finite17"}

\* x is a number that from_str reads back from its text as the same number
ReadBackExactly(x) ==
    x.class = "finite" \/ (x.class = "finite17" /\ float_roundtrip)

C30_RoundTripExactFiniteConfig ==
    RoundTripDone =>
        LET x == config.window_position[1]
            y == config.window_position[2]
            ret == deserialized[1].ret
        IN  IF ~IsFinite(x) \/ ~IsFinite(y)
            THEN /\ ~ret.ok
                 /\ ret.val[1] = "SerializationError"
            ELSE /\ ret.ok
                 /\ ret.val.overlay_visible = config.overlay_visible
                 /\ ret.val.poll_interval_secs = config.poll_interval_secs
                 /\ SameConfig(ret.val, config) <=>
                        (ReadBackExactly(x) /\ ReadBackExactly(y))

\* C30 witness: a configuration that differs from the default in every field
\* went through JSON and came back the same.
C30_Witness ==
    /\ RoundTripDone
    /\ config.window_position = <<F64(200), F64(100)>>
    /\ ~config.overlay_visible
    /\ config.poll_interval_secs = 10
    /\ deserialized[1].ret.ok
    /\ SameConfig(deserialized[1].ret.val, config)

(***************************************************************************)
(* The poller's start, the dispatcher's own send, the configuration saved  *)
(* at Quit, the order of lyrics results, recovery after a service error,   *)
(* cache keys, and the cache's recency queue.                              *)
(***************************************************************************)
\* App::initialize has returned Ok: main is in App::run or past it
Initialized == run_pc \in {"recv", "handle", "sending", "exited", "failed"}

\* App::run is in its loop
LoopRunning == run_pc \in {"recv", "handle", "sending"}

\* C31: the polling task was started exactly when initialize() returned
\* true at startup, and never more than once: start_polling is called once
\* if the client came up authenticated and not at all otherwise, and the
\* task runs as long as the loop does. The step that handles an Authenticate
\* event leaves the token, the keychain entry and the polling task as they
\* are; it hands the URL to the browser when it got one and does nothing
\* else when it did not.
C31_PollerOnlyFromStartup ==
    /\ [](/\ pollers_started <= 1
          /\ (poll_pc # "idle") <=> (pollers_started = 1)
          /\ ~Initialized => pollers_started = 0
          /\ Initialized => ((pollers_started = 1) <=> menu_auth)
          /\ LoopRunning => ((poll_pc = "tick") <=> menu_auth))
    /\ [][(Handling("Authenticate") /\ run_pc' # "handle") =>
              /\ token' = token
              /\ keychain' = keychain
              /\ poll_pc' = poll_pc
              /\ pollers_started' = pollers_started
              /\ current_track' = current_track
              /\ menu_auth' = menu_auth
              /\ IF run_pc' = "recv"
                 THEN browser_opens' = browser_opens + 1
                 ELSE browser_opens' = browser_opens /\ run_pc' = "failed"]_vars

\* C31 witness: the client came up without a token, an Authenticate event
\* was handled and the browser asked for, and no polling task was started.
C31_Witness ==
    /\ run_pc = "recv"
    /\ ~menu_auth
    /\ browser_opens = 1
    /\ poll_pc = "idle"
    /\ pollers_started = 0
    /\ token = None

\* a step of the task that runs App::run: a receive or a handler
DispatcherStep ==
    \/ RunRecv
    \/ \E resp \in LyricsResponses : HandleTrackChanged(resp)
    \/ HandleLyricsRetrieved
    \/ \E fs_ok \in BOOLEAN : HandleToggleOverlay(fs_ok)
    \/ \E url_ok \in BOOLEAN : HandleAuthenticate(url_ok)
    \/ HandleSpotifyError
    \/ \E fs_ok \in BOOLEAN : HandleQuit(fs_ok)

\* the application under the tokio runtime's scheduling: a task that can
\* take a step is polled again, so the loop of App::run, the forwarding task
\* and the polling task each go on while they can; what the user does and
\* when main's caller lets go of the process is left open
SpecAppFair ==
    /\ InitApp
    /\ [][NextApp]_vars
    /\ WF_vars(DispatcherStep)
    /\ WF_vars(Forward)
    /\ WF_vars(PollCycleAny)

\* C32: the loop never waits for good on its own channel: whenever a
\* TrackChanged is being handled, the handler's send of LyricsRetrieved
\* completes and the loop is back at recv.
C32_DispatcherSendCompletes == Handling("TrackChanged") ~> (run_pc = "recv")

\* C33: the configuration persisted at Quit carries the overlay's visibility
\* of that moment: once the loop has ended after a Quit whose save went
\* through, the file holds an AppConfig whose overlay_visible flag is the
\* window's visibility.
C33_QuitPersistsCurrentVisibility ==
    run_pc = "exited" =>
        /\ config_file # None
        /\ ConfigFromJson(config_file[1]).ok
        /\ ConfigFromJson(config_file[1]).val.overlay_visible = window_visible

\* the lyrics of the LyricsRetrieved events among a sequence of events
RECURSIVE LyricsOf(_)
LyricsOf(events) ==
    IF events = <<>> THEN <<>>
    ELSE IF Head(events).kind = "LyricsRetrieved"
         THEN <<Head(events).lyrics>> \o LyricsOf(Tail(events))
         ELSE LyricsOf(Tail(events))

\* the lookup results on their way to the overlay, in the order the loop
\* gets to them: the event being handled, the queued ones, and the one a
\* suspended send of the loop holds
InFlightLyrics == LyricsOf(event \o channel \o pending)

\* nothing is left to handle: the loop waits at recv on an empty channel
Drained == run_pc = "recv" /\ channel = <<>> /\ menu_queue = <<>>

\* the overlay shows a connection error
ShowsError == Len(overlay_text) >= 2

\* C34: LyricsRetrieved events enter the main channel in the order in which
\* their TrackChanged events were handled, and are displayed in that order:
\* while the receiver is there, the results on their way to the overlay are
\* the results not displayed yet, oldest first, and the one displayed next is
\* the oldest of them. Once the channel is drained nothing is left
\* undisplayed, and the overlay shows the result of the lookup for the
\* TrackChanged handled last, unless an error reported since replaced it.
C34_LyricsInHandlingOrder ==
    /\ [](/\ ~rx_closed => InFlightLyrics = unshown
          /\ (Drained /\ last_lookup # None) =>
                 /\ unshown = <<>>
                 /\ \/ overlay_text = LyricsText(last_lookup[1].lyrics)
                    \/ ShowsError)
    /\ [][(Handling("LyricsRetrieved") /\ run_pc' # "handle") =>
              /\ overlay_text' = LyricsText(Head(unshown))
              /\ unshown' = Tail(unshown)]_vars

\* C34 witness: two TrackChanged events were handled, for track a and then
\* for track b, with different results; both results were displayed and the
\* overlay shows the one for b.
C34_Witness ==
    /\ Drained
    /\ ui_updates = 2
    /\ last_lookup # None
    /\ last_lookup[1].track = TrackB
    /\ last_lookup[1].lyrics = Some("na na")
    /\ overlay_text = <<"na na">>
    /\ "a" \in DOMAIN cache.entries
    /\ cache.entries["a"].lyrics = Some("la la")

\* a poll cycle that finds the last-known track playing and reports it
ReportsKnownTrack ==
    /\ PollOnce(Ok(current_track))
    /\ sends' = sends + 1
    /\ channel' = Append(channel, TrackChanged(current_track[1]))

\* C35: the overlay gets back from a connection error to the lyrics of the
\* track that is playing, also when that track is the one known before the
\* failure. The overlay's text is set only when a LyricsRetrieved or a
\* SpotifyError is handled, and a LyricsRetrieved is sent only for a
\* TrackChanged; so when the overlay shows the error, nothing is left to
\* handle and a track is known, the next poll that succeeds and finds that
\* track playing has to send TrackChanged for it.
C35_ErrorTextGivesWayToLyrics ==
    (/\ ShowsError
     /\ Drained
     /\ poll_pc = "tick"
     /\ current_track # None) => ENABLED ReportsKnownTrack

(***************************************************************************)
(* The cache key of a track: fetch_lyrics called for a series of tracks,   *)
(* two of which the playback service reports without an id.                *)
(***************************************************************************)
\* two local files: rspotify's FullTrack has no id for them
FullLocalX == [id |-> None, name |-> "Tape X", artists |-> <<[name |-> "Xi"]>>,
               duration |-> 1000]
FullLocalY == [id |-> None, name |-> "Tape Y", artists |-> <<[name |-> "Yo"]>>,
               duration |-> 2000]

LocalX == FromFullTrack(FullLocalX)
LocalY == FromFullTrack(FullLocalY)

\* tracks that differ from one another, with and without an id
KeyTracks == {TrackA, TrackB, LocalX, LocalY}

\* handle_track_changed's call of fetch_lyrics for a track, the endpoint
\* answering resp if it is asked
FetchLyricsFor(track, resp) ==
    /\ clock < MaxFetches
    /\ LET r == FetchLyrics(cache, track.id, FirstArtist(track), track.name,
                            resp, clock + 1)
       IN  /\ cache' = r.cache
           /\ clock' = clock + 1
           /\ lastFetch' = [id |-> track.id, ret |-> r.ret,
                            resp |-> IF r.remote THEN Some(resp) ELSE None]
           /\ remote_calls' = IF r.remote THEN remote_calls + 1 ELSE remote_calls
           /\ last_lookup' = Some([track |-> track, lyrics |-> r.ret.val])
           /\ cache_origin' = OriginAfter(cache_origin, track, r)
    /\ UNCHANGED <<lastTouch, lastOp, negResolved, unshown>>
    /\ UNCHANGED <<ui_updates, vis_log, forward_pc, deserialized,
                   float_roundtrip, pollers_started, browser_opens>>
    /\ UNCHANGED <<loopVars, pollVars, authVars, sessionVars, appVars>>

InitKeys == InitFetch

NextKeys == \E track \in KeyTracks, resp \in LyricsResponses :
                FetchLyricsFor(track, resp)

SpecKeys == InitKeys /\ [][NextKeys]_vars

\* C36: what fetch_lyrics returns for a track comes from a lookup made for
\* that track's artist and title, also when it comes from the cache: the
\* entry under the track's key was fetched for this artist and this title,
\* so no two different tracks share a key, the ones without an id included.
C36_CachedValueIsForSameTrack ==
    last_lookup # None =>
        LET track == last_lookup[1].track IN
        /\ track.id \in DOMAIN cache_origin
        /\ cache_origin[track.id] =
               [artist |-> FirstArtist(track), title |-> track.name]

\* C37: the recency queue of the cache holds exactly the keys of its entry
\* map, each once, so it is as long as the map is large; an insert drops no
\* key but the one at the head of the queue, which is a key of the map.
C37_QueueMatchesEntries ==
    /\ [](/\ SeqToSet(cache.access_order) = DOMAIN cache.entries
          /\ Len(cache.access_order) = Cardinality(DOMAIN cache.entries))
    /\ [][\A k \in DOMAIN cache.entries \ DOMAIN cache'.entries :
              /\ lastOp'.op = "insert"
              /\ k = Head(cache.access_order)
              /\ cache'.access_order # <<>>
              /\ SubSeq(cache'.access_order, 1, Len(cache'.access_order) - 1)
                     = Tail(cache.access_order)]_vars

\* C37 witness: a full cache of two entries that has evicted a key, and
\* whose last call was a get that hit the older of its entries and moved it
\* to the back of the queue.
C37_Witness ==
    /\ cache.max_size = 2
    /\ Len(cache.access_order) = 2
    /\ lastOp.op = "get"
    /\ lastOp.value # None
    /\ cache.access_order[2] = lastOp.key
    /\ cache.entries[cache.access_order[2]].timestamp
           < cache.entries[cache.access_order[1]].timestamp
    /\ \E k \in TrackIds \ DOMAIN cache.entries : lastTouch[k] > 0

====
